---- MODULE Spec2Model ----
(***************************************************************************)
(* Model of the signal-analysis pipeline of the Forex M15 trading bot:     *)
(*   server/forexService.ts       generateSignalAnalysis (filter stage,    *)
(*                                confluence scorer, rescan controller)    *)
(*   server/signalVerification.ts sendToTelegram, logTrade,                *)
(*                                updateTradeResult                        *)
(*   server routes                POST /api/telegram/send, runAutoScan     *)
(*   client signal-generator.tsx  generateSignal                           *)
(*                                                                         *)
(* Units.  Prices are integers in points, 1 pip = 100 points (a pip is     *)
(* 0.0001, or 0.01 for JPY pairs, so the unit is relative to the pair).    *)
(* Oscillators (RSI, Stochastic, ADX) are integers on the 0..100 scale.    *)
(* A reasoning string is modelled by a tag; the substrings the code looks  *)
(* for in it are given by the Tags* tables.                                *)
(***************************************************************************)
EXTENDS Integers, Sequences, FiniteSets, TLC

-----------------------------------------------------------------------------
(* Program constants *)

HIGH_ACCURACY_PAIRS == {"GBP/USD", "EUR/JPY", "USD/JPY", "USD/CAD", "GBP/JPY"}
MEDIUM_ACCURACY_PAIRS == {"EUR/USD", "AUD/USD", "EUR/AUD", "EUR/GBP"}
LOW_ACCURACY_PAIRS == {"USD/CHF", "AUD/JPY", "NZD/USD"}

KENYA_UTC_OFFSET == 3

\* One pip in points (pipValue, 0.0001 or 0.01 of the quote).
PipValue == 100

\* tradeHistory keeps the last TRADE_LOG_CAP trades.
TRADE_LOG_CAP == 500

\* runAutoScan: threshold passed to generateSignalAnalysis, and the
\* confidence from which a signal is sent to Telegram.
AUTO_SCAN_THRESHOLD == 75
AUTO_SCAN_SEND_MIN == 85

\* generateSignalAnalysis defaults.
DEFAULT_MAX_RESCANS == 5
DEFAULT_MIN_CONFIDENCE == 70

\* client generateSignal
MIN_CONFIDENCE_THRESHOLD == 50

-----------------------------------------------------------------------------
(* Session / classification utilities *)

getPairAccuracy(pair) ==
  IF pair \in HIGH_ACCURACY_PAIRS THEN "HIGH"
  ELSE IF pair \in MEDIUM_ACCURACY_PAIRS THEN "MEDIUM"
  ELSE "LOW"

\* pair.includes("JPY")
IsJPY(pair) == pair \in {"USD/JPY", "EUR/JPY", "GBP/JPY", "AUD/JPY"}

\* getKenyaHour: getUTCHours() of (now + 3 h); utcHour is the UTC hour of now.
getKenyaHour(utcHour) == (utcHour + KENYA_UTC_OFFSET) % 24

\* getCurrentSessionTime: getHours() of (now + 3 h), i.e. the hour in the
\* server's local zone, tz hours east of UTC.
getCurrentSessionTime(utcHour, tz) ==
  LET hour == (utcHour + 3 + tz + 24) % 24
  IN IF hour >= 7 /\ hour < 12 THEN "MORNING"
     ELSE IF hour >= 12 /\ hour < 17 THEN "AFTERNOON"
     ELSE "EVENING"

-----------------------------------------------------------------------------
(* Arithmetic helpers *)

Max(a, b) == IF a >= b THEN a ELSE b
Min(a, b) == IF a <= b THEN a ELSE b

\* Math.round(n * num / den) for an integer n: round half up.
RoundMul(n, num, den) == (2 * n * num + den) \div (2 * den)

Cond(c, s) == IF c THEN s ELSE << >>

\* The element of a one-element set.  Only({F(x) : x \in {e}}) is F(e) with
\* e computed once and named x: const x = e; ... x ... x ...
Only(S) == CHOOSE y \in S : TRUE

-----------------------------------------------------------------------------
(* Technical analysis of one candle series.                                *)
(* A series is represented by the indicator values analyzeTechnicals       *)
(* derives from it plus the candle features generateSignalAnalysis reads   *)
(* directly:                                                               *)
(*   price   close of the last candle (currentPrice)                       *)
(*   rsi, k, d, adx   oscillators                                          *)
(*   sma20, sd2       Bollinger middle (= SMA20) and band half-width       *)
(*   sma50, sma200    moving averages                                      *)
(*   macd    "BULL": histogram > 0 and macdLine > signalLine,              *)
(*           "BEAR": histogram < 0 and macdLine < signalLine, else "FLAT"  *)
(*   macdStrength  |histogram| against |signalLine|: "HI" > 0.5,           *)
(*           "MID" > 0.2, else "LO"                                        *)
(*   st      Supertrend direction                                          *)
(*   pattern detectCandlePattern's result, "none" for null                 *)
(*   atr     average true range                                            *)
(*   c1, c2, c3  last, previous and third-last candle: "UP" close > open   *)
(*           and body >= 30% of range, "DOWN" likewise bearish, "WEAK"     *)
(*           otherwise (indecision or flat)                                *)
(*   spike   last range >= 1.5 x mean range of the last 14 candles         *)
(*   spike20 the same against the last 20 candles (isExtremeVolatility)    *)
(*   len     number of candles                                             *)
(***************************************************************************)

bbUpper(t) == t.sma20 + t.sd2
bbLower(t) == t.sma20 - t.sd2

\* analyzeTechnicals: bollingerBreakout
bbBreakout(t) == t.price > bbUpper(t) \/ t.price < bbLower(t)

\* percentB = (price - lower) / (upper - lower), compared with n/10
percentBBelow(t, n) == (t.price - bbLower(t)) * 10 < n * (2 * t.sd2)
percentBAbove(t, n) == (t.price - bbLower(t)) * 10 > n * (2 * t.sd2)

\* analyzeTechnicals: momentum
momentumOf(t) ==
  IF t.adx > 40 \/ t.macdStrength = "HI" THEN "STRONG"
  ELSE IF t.adx > 25 \/ t.macdStrength = "MID" THEN "MODERATE"
  ELSE "WEAK"

\* analyzeTechnicals: volatility (atr against 1.5% and 0.8% of the middle band)
volatilityOf(t) ==
  IF t.atr * 1000 > t.sma20 * 15 THEN "HIGH"
  ELSE IF t.atr * 1000 > t.sma20 * 8 THEN "MEDIUM"
  ELSE "LOW"

-----------------------------------------------------------------------------
(* Signal filter stage (hard vetoes) of one pass *)

strongBullishPatterns == {"bullish_engulfing", "hammer", "morning_star"}
strongBearishPatterns == {"bearish_engulfing", "shooting_star", "evening_star"}
weakPatterns == {"doji", "spinning_top", "pin_bar_bullish", "pin_bar_bearish"}

isHTFAligned(t, m15Trend, h1Trend) == t.st = m15Trend /\ t.st = h1Trend
isPartiallyAligned(t, m15Trend, h1Trend) == t.st = m15Trend \/ t.st = h1Trend

rsiUpperExtreme(pair) == IF IsJPY(pair) THEN 96 ELSE 97
rsiLowerExtreme(pair) == IF IsJPY(pair) THEN 4 ELSE 3

extremeOverbought(pair, t) == t.rsi > rsiUpperExtreme(pair) \/ t.k > 97 \/ t.d > 97
extremeOversold(pair, t) == t.rsi < rsiLowerExtreme(pair) \/ t.k < 3 \/ t.d < 3

\* hasExtremeIndicators / isExtremeZone (the same expression twice in the code)
isExtremeZone(t) == t.rsi > 90 \/ t.rsi < 10 \/ t.k > 90 \/ t.k < 10

bollingerExtreme(t) == bbBreakout(t) /\ isExtremeZone(t)

volatilitySpike(t) == t.len >= 14 /\ t.spike

\* Variant: the evening blocks LOW-accuracy pairs only.
eveningBlock_LowOnly(pair, utcHour) ==
  LET sessionHour == getKenyaHour(utcHour)
  IN (sessionHour >= 17 \/ sessionHour < 7) /\ getPairAccuracy(pair) = "LOW"

eveningBlock(pair, utcHour) ==
  LET sessionHour == getKenyaHour(utcHour)
  IN (sessionHour >= 17 \/ sessionHour < 7) /\ getPairAccuracy(pair) # "HIGH"

afternoonBlock(pair, utcHour) ==
  LET sessionHour == getKenyaHour(utcHour)
  IN (sessionHour >= 12 /\ sessionHour < 17) /\ getPairAccuracy(pair) = "LOW"

\* 3. consecutive candle confirmation
hasConsecutiveConfirmation(t) ==
  t.len >= 4 /\ ((t.c1 = "UP" /\ t.c2 = "UP") \/ (t.c1 = "DOWN" /\ t.c2 = "DOWN"))

candleConfirmationStrength(t) ==
  IF t.len < 4 THEN 0
  ELSE IF (t.c1 = "UP" /\ t.c2 = "UP" /\ t.c3 = "UP")
          \/ (t.c1 = "DOWN" /\ t.c2 = "DOWN" /\ t.c3 = "DOWN") THEN 3
  ELSE IF hasConsecutiveConfirmation(t) THEN 2
  ELSE 0

hasStrongPattern(t) == t.pattern \in (strongBullishPatterns \cup strongBearishPatterns)
hasWeakPattern(t) == t.pattern \in weakPatterns

weakPatternInExtremeZone(t) == isExtremeZone(t) /\ (hasWeakPattern(t) \/ ~hasStrongPattern(t))

\* The vetoes in the order the code evaluates them; each has the value it
\* assigns to skipReason and the reasoning strings it pushes.
FilterChecks(pair, t, m15Trend, h1Trend, utcHour) ==
  << [fired |-> ~isHTFAligned(t, m15Trend, h1Trend), reason |-> "HTF",
      push |-> <<"HTF_MISALIGNED", "HTF_CONFLICT">>],
     [fired |-> extremeOverbought(pair, t), reason |-> "OVERBOUGHT",
      push |-> <<"SKIP_OVERBOUGHT">>],
     [fired |-> extremeOversold(pair, t), reason |-> "OVERSOLD",
      push |-> <<"SKIP_OVERSOLD">>],
     [fired |-> bollingerExtreme(t), reason |-> "BOLLINGER",
      push |-> <<"SKIP_BOLLINGER">>],
     [fired |-> volatilitySpike(t), reason |-> "VOLATILITY",
      push |-> <<"SKIP_VOLATILITY">>],
     [fired |-> eveningBlock(pair, utcHour), reason |-> "EVENING",
      push |-> <<"SKIP_EVENING">>],
     [fired |-> afternoonBlock(pair, utcHour), reason |-> "AFTERNOON",
      push |-> <<"SKIP_AFTERNOON">>],
     [fired |-> weakPatternInExtremeZone(t), reason |-> "WEAK_PATTERN",
      push |-> <<"SKIP_WEAK_PATTERN">>] >>

RECURSIVE RunChecks(_, _)
\* The reasoning after the first i checks: what a check that fires pushes,
\* and the alignment note when the first does not fire.
RunChecks(checks, i) ==
  IF i = 0 THEN << >>
  ELSE RunChecks(checks, i - 1)
       \o (IF checks[i].fired THEN checks[i].push
           ELSE IF i = 1 THEN <<"HTF_PERFECT">> ELSE << >>)

\* skipTrade, skipReason and reasoning after the checks: skipReason is the
\* reason of the last check that fired.
ChecksResult(checks) ==
  LET fired == {i \in 1..Len(checks) : checks[i].fired}
  IN [skipTrade |-> fired # {},
      skipReason |-> IF fired = {} THEN ""
                     ELSE checks[CHOOSE i \in fired : \A j \in fired : j <= i].reason,
      reasoning |-> RunChecks(checks, Len(checks))]

\* Variant: the candle confirmation is not required.
FilterStage_NoConfirmation(pair, t, m15Trend, h1Trend, utcHour) ==
  Only({ChecksResult(checks) : checks \in {FilterChecks(pair, t, m15Trend, h1Trend, utcHour)}})

\* 6. the confirmation veto is applied only when nothing has fired before it
\* (!hasConsecutiveConfirmation && !skipTrade).
FilterStage(pair, t, m15Trend, h1Trend, utcHour) ==
  Only({IF ~hasConsecutiveConfirmation(t) /\ ~a.skipTrade
        THEN [skipTrade |-> TRUE, skipReason |-> "NO_CONFIRMATION",
              reasoning |-> a.reasoning \o <<"SKIP_NO_CONFIRMATION">>]
        ELSE a :
        a \in {ChecksResult(checks) :
                 checks \in {FilterChecks(pair, t, m15Trend, h1Trend, utcHour)}}})

\* The technicals field of a SignalAnalysis, as far as the series determines
\* it (the moving averages ema12/ema26, percentB and trend are left out).
TechnicalsOf(t) ==
  [rsi |-> t.rsi, macd |-> t.macd, sma20 |-> t.sma20, sma50 |-> t.sma50,
   sma200 |-> t.sma200, bbUpper |-> bbUpper(t), bbLower |-> bbLower(t),
   breakout |-> bbBreakout(t), k |-> t.k, d |-> t.d, atr |-> t.atr, adx |-> t.adx,
   supertrend |-> t.st, candlePattern |-> t.pattern,
   momentum |-> momentumOf(t), volatility |-> volatilityOf(t)]

\* Early return for skipped trades.
BlockedSignal(pair, t, f) ==
  [pair |-> pair, currentPrice |-> t.price, signalType |-> "CALL", confidence |-> 0,
   entry |-> t.price, stopLoss |-> t.price - PipValue * 15,
   takeProfit |-> t.price + PipValue * 30,
   technicals |-> TechnicalsOf(t),
   reasoning |-> f.reasoning \o <<"TRADE_BLOCKED", "FINAL_SKIPPED">>]

-----------------------------------------------------------------------------
(* Confluence scorer of one pass (runs only when no veto fired) *)

confirmingPatterns ==
  {"bullish_engulfing", "bearish_engulfing", "pin_bar_bullish", "pin_bar_bearish",
   "hammer", "shooting_star", "doji", "morning_star", "evening_star"}
bullishPatterns == {"bullish_engulfing", "pin_bar_bullish", "hammer", "morning_star"}
bearishPatterns == {"bearish_engulfing", "pin_bar_bearish", "shooting_star", "evening_star"}

\* Each contribution is [bull, bear, push]: what it adds to bullishScore and
\* bearishScore and the reasoning string it pushes.
Vote(bull, bear, push) == [bull |-> bull, bear |-> bear, push |-> push]
NoVote == Vote(0, 0, << >>)
Side(dir, n, push) == IF dir = "BULLISH" THEN Vote(n, 0, push) ELSE Vote(0, n, push)

htfVote(t, m15Trend, h1Trend) ==
  IF isHTFAligned(t, m15Trend, h1Trend)
  THEN Side(t.st, 50, <<IF t.st = "BULLISH" THEN "HTF_ALL_BULLISH" ELSE "HTF_ALL_BEARISH">>)
  ELSE IF isPartiallyAligned(t, m15Trend, h1Trend) THEN Side(t.st, 20, <<"HTF_PARTIAL">>)
  ELSE NoVote

candleVote(t) ==
  IF candleConfirmationStrength(t) = 3 THEN Side(t.st, 25, <<"CANDLES_3">>)
  ELSE IF candleConfirmationStrength(t) = 2 THEN Side(t.st, 15, <<"CANDLES_2">>)
  ELSE NoVote

macdVote(t) ==
  IF t.macd = "BULL" THEN Vote(40, 0, <<"MACD_BULLISH">>)
  ELSE IF t.macd = "BEAR" THEN Vote(0, 40, <<"MACD_BEARISH">>)
  ELSE NoVote

supertrendVote(t) ==
  IF t.st = "BULLISH" THEN Vote(40, 0, <<"SUPERTREND_BULLISH">>)
  ELSE Vote(0, 40, <<"SUPERTREND_BEARISH">>)

bollingerVote(t) ==
  IF bbBreakout(t)
  THEN IF t.price > bbUpper(t) THEN Vote(0, 30, <<"BB_UPPER_BREAKOUT">>)
       ELSE Vote(30, 0, <<"BB_LOWER_BREAKOUT">>)
  ELSE IF percentBBelow(t, 2) THEN Vote(15, 0, <<"BB_NEAR_LOWER">>)
  ELSE IF percentBAbove(t, 8) THEN Vote(0, 15, <<"BB_NEAR_UPPER">>)
  ELSE NoVote

rsiVote(t) ==
  IF t.rsi >= 70 THEN Vote(0, 20, <<"RSI_OVERBOUGHT">>)
  ELSE IF t.rsi <= 30 THEN Vote(20, 0, <<"RSI_OVERSOLD">>)
  ELSE IF t.rsi > 60 THEN Vote(0, 10, <<"RSI_ELEVATED">>)
  ELSE IF t.rsi < 40 THEN Vote(10, 0, <<"RSI_DEPRESSED">>)
  ELSE NoVote

smaVote(t) ==
  IF t.price > t.sma20 /\ t.price > t.sma50 /\ t.price > t.sma200
  THEN Vote(15, 0, <<"ABOVE_ALL_SMA">>)
  ELSE IF t.price < t.sma20 /\ t.price < t.sma50 /\ t.price < t.sma200
  THEN Vote(0, 15, <<"BELOW_ALL_SMA">>)
  ELSE IF t.price > t.sma20 /\ t.price > t.sma50 THEN Vote(10, 0, <<"ABOVE_SMA20_50">>)
  ELSE IF t.price < t.sma20 /\ t.price < t.sma50 THEN Vote(0, 10, <<"BELOW_SMA20_50">>)
  ELSE NoVote

stochasticVote(t) ==
  IF t.k < 20 /\ t.d < 20 THEN Vote(15, 0, <<"STOCH_OVERSOLD">>)
  ELSE IF t.k > 80 /\ t.d > 80 THEN Vote(0, 15, <<"STOCH_OVERBOUGHT">>)
  ELSE NoVote

patternVote(t) ==
  IF t.pattern \in confirmingPatterns
  THEN IF t.pattern \in bullishPatterns THEN Vote(15, 0, <<"PATTERN_BULLISH">>)
       ELSE IF t.pattern \in bearishPatterns THEN Vote(0, 15, <<"PATTERN_BEARISH">>)
       ELSE IF t.pattern = "doji" THEN Vote(0, 0, <<"PATTERN_DOJI">>)
       ELSE NoVote
  ELSE NoVote

ScoreVotes(t, m15Trend, h1Trend) ==
  << htfVote(t, m15Trend, h1Trend), candleVote(t), macdVote(t), supertrendVote(t),
     bollingerVote(t), rsiVote(t), smaVote(t), stochasticVote(t), patternVote(t) >>

RECURSIVE SumVotes(_, _)
\* Adds the first i votes up, in order.
SumVotes(votes, i) ==
  IF i = 0 THEN NoVote
  ELSE Only({Vote(r.bull + votes[i].bull, r.bear + votes[i].bear,
                  r.push \o votes[i].push) : r \in {SumVotes(votes, i - 1)}})

\* The ADX bonus goes to the side that leads so far (ties to the bearish side).
adxVote(t, bull, bear) ==
  IF t.adx > 40
  THEN IF bull > bear THEN Vote(10, 0, <<"ADX_VERY_STRONG">>) ELSE Vote(0, 10, <<"ADX_VERY_STRONG">>)
  ELSE IF t.adx > 25
  THEN IF bull > bear THEN Vote(5, 0, <<"ADX_STRONG">>) ELSE Vote(0, 5, <<"ADX_STRONG">>)
  ELSE NoVote

\* bullishScore, bearishScore and the reasoning pushed while voting.
Scores(t, m15Trend, h1Trend) ==
  Only({Only({Vote(s.bull + a.bull, s.bear + a.bear, s.push \o a.push) :
                a \in {adxVote(t, s.bull, s.bear)}}) :
        s \in {SumVotes(v, Len(v)) : v \in {ScoreVotes(t, m15Trend, h1Trend)}}})

\* Confidence tier of a score difference: [base, cap, push].
Tier(scoreDiff) ==
  IF scoreDiff < 20
  THEN [base |-> 50 + RoundMul(scoreDiff, 3, 10), cap |-> 56, push |-> "LOW_CONFLUENCE"]
  ELSE IF scoreDiff < 40
  THEN [base |-> 55 + RoundMul(scoreDiff - 20, 4, 10), cap |-> 70, push |-> "MODERATE_CONFLUENCE"]
  ELSE IF scoreDiff < 60
  THEN [base |-> 65 + RoundMul(scoreDiff - 40, 5, 10), cap |-> 85, push |-> "GOOD_CONFLUENCE"]
  ELSE [base |-> 75 + RoundMul(scoreDiff - 60, 3, 10), cap |-> 98, push |-> "STRONG_CONFLUENCE"]

\* STRICT CONFIDENCE CAPPING: the second cap, by score difference alone.
TierCap(scoreDiff) ==
  IF scoreDiff < 20 THEN 56 ELSE IF scoreDiff < 40 THEN 70
  ELSE IF scoreDiff < 60 THEN 85 ELSE 98

\* Secondary adjustments by score difference.
SecondaryAdjust(pair, t, scoreDiff, hasPatternConfirmation, patternAligned) ==
  IF scoreDiff >= 40
  THEN (IF t.adx > 40 THEN 5 ELSE IF t.adx > 25 THEN 3 ELSE 0)
       + (IF momentumOf(t) = "STRONG" THEN 3 ELSE 0)
       + (IF volatilityOf(t) = "LOW" THEN 2 ELSE 0)
       + (IF getPairAccuracy(pair) = "HIGH" THEN 5
          ELSE IF getPairAccuracy(pair) = "LOW" THEN -5 ELSE 0)
       + (IF patternAligned THEN 8
          ELSE IF hasPatternConfirmation /\ ~patternAligned THEN -10 ELSE 0)
  ELSE IF scoreDiff >= 20
  THEN (IF getPairAccuracy(pair) = "LOW" THEN -3 ELSE 0)
       + (IF hasPatternConfirmation /\ ~patternAligned THEN -5 ELSE 0)
  ELSE 0

\* Math.round((winningScore / (winningScore + losingScore)) * 100)
confluenceScoreOf(winningScore, losingScore) ==
  (200 * winningScore + (winningScore + losingScore))
    \div (2 * (winningScore + losingScore))

riskRewardRatio10(confidence) ==
  IF confidence > 90 THEN 30 ELSE IF confidence > 80 THEN 25
  ELSE IF confidence > 70 THEN 20 ELSE 18

\* atrMultiplier x 10
atrMultiplier10(t) ==
  IF volatilityOf(t) = "HIGH" THEN 20 ELSE IF volatilityOf(t) = "MEDIUM" THEN 15 ELSE 12

\* Variant: strict mode for LOW-accuracy pairs only.
ScoreBasis_StrictLowOnly(pair, t, sessionTime, sc) ==
  LET pairAccuracy == getPairAccuracy(pair)
      strictMode == sessionTime = "AFTERNOON" /\ pairAccuracy \in {"LOW"}
      signalType == IF sc.bull >= sc.bear THEN "CALL" ELSE "PUT"
      winningScore == Max(sc.bull, sc.bear)
      losingScore == Min(sc.bull, sc.bear)
      confluenceScore == confluenceScoreOf(winningScore, losingScore)
      hasPatternConfirmation == t.pattern \in confirmingPatterns /\ t.pattern # "doji"
      patternAligned ==
        hasPatternConfirmation
        /\ ((signalType = "CALL" /\ t.pattern \in bullishPatterns)
            \/ (signalType = "PUT" /\ t.pattern \in bearishPatterns))
      minThreshold == IF strictMode THEN 70 ELSE 60
  IN [signalType |-> signalType,
      scoreDiff |-> winningScore - losingScore,
      strictMode |-> strictMode,
      hasPatternConfirmation |-> hasPatternConfirmation,
      patternAligned |-> patternAligned,
      isNeutralPattern |-> t.pattern \in {"doji", "spinning_top"},
      signalBlocked |-> strictMode /\ (confluenceScore < minThreshold \/ ~patternAligned)]

\* The winner of the vote and what follows from the scores alone.
ScoreBasis(pair, t, sessionTime, sc) ==
  LET pairAccuracy == getPairAccuracy(pair)
      strictMode == sessionTime = "AFTERNOON" /\ pairAccuracy \in {"MEDIUM", "LOW"}
      signalType == IF sc.bull >= sc.bear THEN "CALL" ELSE "PUT"
      winningScore == Max(sc.bull, sc.bear)
      losingScore == Min(sc.bull, sc.bear)
      confluenceScore == confluenceScoreOf(winningScore, losingScore)
      hasPatternConfirmation == t.pattern \in confirmingPatterns /\ t.pattern # "doji"
      patternAligned ==
        hasPatternConfirmation
        /\ ((signalType = "CALL" /\ t.pattern \in bullishPatterns)
            \/ (signalType = "PUT" /\ t.pattern \in bearishPatterns))
      minThreshold == IF strictMode THEN 70 ELSE 60
  IN [signalType |-> signalType,
      scoreDiff |-> winningScore - losingScore,
      strictMode |-> strictMode,
      hasPatternConfirmation |-> hasPatternConfirmation,
      patternAligned |-> patternAligned,
      isNeutralPattern |-> t.pattern \in {"doji", "spinning_top"},
      signalBlocked |-> strictMode /\ (confluenceScore < minThreshold \/ ~patternAligned)]

\* The confidence from its tier to the first clamp, for the basis b:
\* tier, secondary adjustments, extreme-zone penalties, alignment boost,
\* strict mode, Math.min(maxConfidence, Math.max(45, confidence)).
FirstClamp(pair, t, m15Trend, h1Trend, b) ==
  LET aligned == isHTFAligned(t, m15Trend, h1Trend)
      partial == isPartiallyAligned(t, m15Trend, h1Trend)
      tier == Tier(b.scoreDiff)
      c1 == tier.base
            + SecondaryAdjust(pair, t, b.scoreDiff, b.hasPatternConfirmation,
                              b.patternAligned)
      rsiZone == (t.rsi >= 90 /\ t.rsi <= rsiUpperExtreme(pair))
                 \/ (t.rsi >= rsiLowerExtreme(pair) /\ t.rsi <= 10)
      stochZone == (t.k >= 90 \/ t.d >= 90) \/ (t.k <= 10 \/ t.d <= 10)
      c2 == c1 - (IF rsiZone THEN 12 ELSE 0) - (IF stochZone THEN 10 ELSE 0)
      c3 == c2 + (IF aligned THEN 15 ELSE IF ~partial THEN -20 ELSE 0)
      c4 == IF b.strictMode THEN c3 - 20 ELSE c3
      maxConfidence == IF b.strictMode THEN Min(tier.cap, 55) ELSE tier.cap
  IN [capped |-> Min(maxConfidence, Max(45, c4)),
      tierPush |-> tier.push, rsiZone |-> rsiZone, stochZone |-> stochZone]

\* Variant: the pattern bonus is added after the cap by score difference.
SecondClamp_BonusAfterCap(pair, t, sessionTime, b, capped) ==
  LET rsiPenalty ==
        IF t.rsi > 90 /\ t.rsi <= rsiUpperExtreme(pair) THEN <<7, "RSI_OVERBOUGHT_ZONE">>
        ELSE IF t.rsi < 10 /\ t.rsi >= rsiLowerExtreme(pair) THEN <<7, "RSI_OVERSOLD_ZONE">>
        ELSE <<0, "">>
      stochPenalty ==
        IF (t.k > 90 /\ t.k <= 97) \/ (t.d > 90 /\ t.d <= 97)
        THEN <<5, "STOCH_OVERBOUGHT_ZONE">>
        ELSE IF (t.k < 10 /\ t.k >= 3) \/ (t.d < 10 /\ t.d >= 3)
        THEN <<5, "STOCH_OVERSOLD_ZONE">>
        ELSE <<0, "">>
      neutralPatternPenalty == IF b.isNeutralPattern THEN 8 ELSE 0
      c5 == Max(30, capped - rsiPenalty[1] - stochPenalty[1] - neutralPatternPenalty)
      c6 == Min(c5, TierCap(b.scoreDiff)) + (IF b.patternAligned THEN 8 ELSE 0)
      preGate == IF b.strictMode THEN Min(Max(30, c6 - 20), 55) ELSE c6
      gated == (sessionTime = "AFTERNOON" \/ getPairAccuracy(pair) = "LOW")
               /\ preGate < 85 /\ b.scoreDiff < 60
  IN [preGate |-> preGate, gated |-> gated,
      confidence |-> IF gated THEN 0 ELSE preGate,
      rsiPenalty |-> rsiPenalty, stochPenalty |-> stochPenalty]

\* Variant: without the session gate.
SecondClamp_NoGate(pair, t, sessionTime, b, capped) ==
  LET rsiPenalty ==
        IF t.rsi > 90 /\ t.rsi <= rsiUpperExtreme(pair) THEN <<7, "RSI_OVERBOUGHT_ZONE">>
        ELSE IF t.rsi < 10 /\ t.rsi >= rsiLowerExtreme(pair) THEN <<7, "RSI_OVERSOLD_ZONE">>
        ELSE <<0, "">>
      stochPenalty ==
        IF (t.k > 90 /\ t.k <= 97) \/ (t.d > 90 /\ t.d <= 97)
        THEN <<5, "STOCH_OVERBOUGHT_ZONE">>
        ELSE IF (t.k < 10 /\ t.k >= 3) \/ (t.d < 10 /\ t.d >= 3)
        THEN <<5, "STOCH_OVERSOLD_ZONE">>
        ELSE <<0, "">>
      neutralPatternPenalty == IF b.isNeutralPattern THEN 8 ELSE 0
      c5 == Max(30, capped - rsiPenalty[1] - stochPenalty[1] - neutralPatternPenalty)
      c6 == Min(c5, TierCap(b.scoreDiff))
      preGate == IF b.strictMode THEN Min(Max(30, c6 - 20), 55) ELSE c6
      gated == FALSE
  IN [preGate |-> preGate, gated |-> gated,
      confidence |-> IF gated THEN 0 ELSE preGate,
      rsiPenalty |-> rsiPenalty, stochPenalty |-> stochPenalty]

\* The confidence from the first clamp (capped) to the soft gate: second
\* penalties, cap by score difference, strict mode, session gate.
SecondClamp(pair, t, sessionTime, b, capped) ==
  LET rsiPenalty ==
        IF t.rsi > 90 /\ t.rsi <= rsiUpperExtreme(pair) THEN <<7, "RSI_OVERBOUGHT_ZONE">>
        ELSE IF t.rsi < 10 /\ t.rsi >= rsiLowerExtreme(pair) THEN <<7, "RSI_OVERSOLD_ZONE">>
        ELSE <<0, "">>
      stochPenalty ==
        IF (t.k > 90 /\ t.k <= 97) \/ (t.d > 90 /\ t.d <= 97)
        THEN <<5, "STOCH_OVERBOUGHT_ZONE">>
        ELSE IF (t.k < 10 /\ t.k >= 3) \/ (t.d < 10 /\ t.d >= 3)
        THEN <<5, "STOCH_OVERSOLD_ZONE">>
        ELSE <<0, "">>
      neutralPatternPenalty == IF b.isNeutralPattern THEN 8 ELSE 0
      c5 == Max(30, capped - rsiPenalty[1] - stochPenalty[1] - neutralPatternPenalty)
      c6 == Min(c5, TierCap(b.scoreDiff))
      preGate == IF b.strictMode THEN Min(Max(30, c6 - 20), 55) ELSE c6
      gated == (sessionTime = "AFTERNOON" \/ getPairAccuracy(pair) = "LOW")
               /\ preGate < 85 /\ b.scoreDiff < 60
  IN [preGate |-> preGate, gated |-> gated,
      confidence |-> IF gated THEN 0 ELSE preGate,
      rsiPenalty |-> rsiPenalty, stochPenalty |-> stochPenalty]

\* The result of the scoring stage from the scores sc, the basis b, the
\* first clamp f and the second clamp g: prices, verification summary and
\* reasoning.  It keeps the intermediate values the code computes on the way:
\*   scoreDiff, capped (confidence after the first clamp, which sets the
\*   risk/reward ratio), preGate (confidence before the soft gate),
\*   confidence (final), and the prices.
ScoreResult(pair, t, m15Trend, h1Trend, sessionTime, reasoning0, sc, b, f, g) ==
  LET aligned == isHTFAligned(t, m15Trend, h1Trend)
      partial == isPartiallyAligned(t, m15Trend, h1Trend)
      slPips == Max((t.atr * atrMultiplier10(t)) \div 10, PipValue * 15)
      tpPips == (slPips * riskRewardRatio10(f.capped)) \div 10
      allChecksPassed ==
        /\ aligned
        /\ candleConfirmationStrength(t) >= 2
        /\ ~(t.rsi > 97 \/ t.rsi < 3 \/ t.k > 97 \/ t.k < 3)
        /\ ~(t.len >= 2 /\ t.spike20)
        /\ g.confidence > 0
        /\ g.confidence >= (IF sessionTime \in {"AFTERNOON", "EVENING"} THEN 85 ELSE 70)
      reasoning ==
        reasoning0 \o sc.push
        \o Cond(b.signalBlocked, <<"STRICT_QUALITY_REDUCED">>)
        \o <<f.tierPush>>
        \o Cond(f.rsiZone, <<"EXTREME_RSI_ZONE_12">>)
        \o Cond(f.stochZone, <<"EXTREME_STOCH_ZONE_10">>)
        \o (IF aligned THEN <<"HTF_BOOST_15">>
            ELSE IF ~partial THEN <<"NO_HTF_ALIGNMENT_20">> ELSE << >>)
        \o Cond(b.strictMode /\ ~b.signalBlocked, <<"STRICT_REDUCED_20">>)
        \o <<"PAIR_SESSION">>
        \o Cond(g.rsiPenalty[1] > 0, <<g.rsiPenalty[2]>>)
        \o Cond(g.stochPenalty[1] > 0, <<g.stochPenalty[2]>>)
        \o Cond(b.isNeutralPattern, <<"NEUTRAL_PATTERN_8">>)
        \o <<"CANDLES_CONFIRMED">>
        \o (IF b.scoreDiff < 20 THEN <<"CAPPED_56">>
            ELSE IF b.scoreDiff < 40 THEN <<"CAPPED_70">>
            ELSE IF b.scoreDiff < 60 THEN <<"CAPPED_85">> ELSE << >>)
        \o Cond(b.strictMode, <<"STRICT_MODE_CAP_55">>)
        \o Cond(g.gated, <<"SESSION_BLOCKED">>)
        \o <<"FINAL_CONFLUENCE", "HTF_SUMMARY">>
        \o (IF allChecksPassed /\ g.confidence > 0 THEN <<"ALL_CHECKS_PASSED">>
            ELSE IF g.confidence > 0 THEN <<"PARTIAL_VERIFICATION">> ELSE << >>)
  IN [signalType |-> b.signalType, scoreDiff |-> b.scoreDiff, capped |-> f.capped,
      preGate |-> g.preGate, gated |-> g.gated, confidence |-> g.confidence,
      entry |-> t.price,
      stopLoss |-> IF b.signalType = "CALL" THEN t.price - slPips ELSE t.price + slPips,
      takeProfit |-> IF b.signalType = "CALL" THEN t.price + tpPips
                     ELSE t.price - tpPips,
      reasoning |-> reasoning]

\* The scoring stage from the votes to the soft gate, each stage computed
\* once from the stages before it.
ScoreStage(pair, t, m15Trend, h1Trend, sessionTime, reasoning0) ==
  Only(UNION UNION UNION
    {{{{ScoreResult(pair, t, m15Trend, h1Trend, sessionTime, reasoning0, sc, b, f, g) :
          g \in {SecondClamp(pair, t, sessionTime, b, f.capped)}} :
         f \in {FirstClamp(pair, t, m15Trend, h1Trend, b)}} :
        b \in {ScoreBasis(pair, t, sessionTime, sc)}} :
       sc \in {Scores(t, m15Trend, h1Trend)}})

\* Variant: the score difference is reported as the confidence.
ScoredSignal_ScoreDiff(pair, t, s) ==
  [pair |-> pair, currentPrice |-> t.price, signalType |-> s.signalType,
   confidence |-> s.scoreDiff, entry |-> s.entry, stopLoss |-> s.stopLoss,
   takeProfit |-> s.takeProfit, technicals |-> TechnicalsOf(t), reasoning |-> s.reasoning]

\* currentSignal of a scored pass.
ScoredSignal(pair, t, s) ==
  [pair |-> pair, currentPrice |-> t.price, signalType |-> s.signalType,
   confidence |-> s.confidence, entry |-> s.entry, stopLoss |-> s.stopLoss,
   takeProfit |-> s.takeProfit, technicals |-> TechnicalsOf(t), reasoning |-> s.reasoning]

\* One analysis pass, from the technicals to the pass's signal:
\* [blocked, signal], blocked when the filter stage returned early.
AnalysePass(pair, t, m15Trend, h1Trend, utcHour, tz) ==
  Only({IF f.skipTrade
        THEN [blocked |-> TRUE, signal |-> BlockedSignal(pair, t, f)]
        ELSE [blocked |-> FALSE,
              signal |-> Only({ScoredSignal(pair, t, s) :
                               s \in {ScoreStage(pair, t, m15Trend, h1Trend,
                                                 getCurrentSessionTime(utcHour, tz),
                                                 f.reasoning)}})] :
        f \in {FilterStage(pair, t, m15Trend, h1Trend, utcHour)}})

-----------------------------------------------------------------------------
(* Trade log *)

\* Variant: the newest entry is dropped (pop for shift).
logTrade_DropNewest(history, tradeData, timestamp, seqNo) ==
  LET trade == [timestamp |-> timestamp, pair |-> tradeData.pair,
                signalType |-> tradeData.signalType, entry |-> tradeData.entry,
                stopLoss |-> tradeData.stopLoss, takeProfit |-> tradeData.takeProfit,
                confidence |-> tradeData.confidence, rsi |-> tradeData.rsi,
                stochastic |-> tradeData.stochastic,
                candlePattern |-> tradeData.candlePattern,
                session |-> tradeData.session, pairAccuracy |-> tradeData.pairAccuracy,
                result |-> "PENDING", exitPrice |-> 0, exitTime |-> 0, seqNo |-> seqNo]
      pushed == Append(history, trade)
  IN IF Len(pushed) > TRADE_LOG_CAP THEN SubSeq(pushed, 1, TRADE_LOG_CAP) ELSE pushed

\* logTrade: push, then drop the oldest entry when more than 500 are held.
\* seqNo is the number of the insertion (a history field, not in the code).
logTrade(history, tradeData, timestamp, seqNo) ==
  LET trade == [timestamp |-> timestamp, pair |-> tradeData.pair,
                signalType |-> tradeData.signalType, entry |-> tradeData.entry,
                stopLoss |-> tradeData.stopLoss, takeProfit |-> tradeData.takeProfit,
                confidence |-> tradeData.confidence, rsi |-> tradeData.rsi,
                stochastic |-> tradeData.stochastic,
                candlePattern |-> tradeData.candlePattern,
                session |-> tradeData.session, pairAccuracy |-> tradeData.pairAccuracy,
                result |-> "PENDING", exitPrice |-> 0, exitTime |-> 0, seqNo |-> seqNo]
      pushed == Append(history, trade)
  IN IF Len(pushed) > TRADE_LOG_CAP THEN Tail(pushed) ELSE pushed

Abs(x) == IF x < 0 THEN -x ELSE x

\* Variant: an entry that already has a result matches too.
matchesTrade_AnyResult(t, entryPrice, exitTime) ==
  t.entry = entryPrice /\ Abs(t.timestamp - exitTime) < 10 * 60

\* t.entry === entryPrice && t.result === "PENDING" && |t.timestamp - exitTime| < 10 min
\* (times in seconds)
matchesTrade(t, entryPrice, exitTime) ==
  t.entry = entryPrice /\ t.result = "PENDING" /\ Abs(t.timestamp - exitTime) < 10 * 60

\* Variant: the newest matching entry is updated (findLast for find).
updateTradeResult_Newest(history, entryPrice, exitPrice, exitTime, result) ==
  LET hits == {i \in 1..Len(history) : matchesTrade(history[i], entryPrice, exitTime)}
  IN IF hits = {} THEN history
     ELSE LET i == CHOOSE j \in hits : \A h \in hits : j >= h
          IN [history EXCEPT ![i] = [@ EXCEPT !.result = result, !.exitPrice = exitPrice,
                                               !.exitTime = exitTime]]

\* updateTradeResult: Array.find gives the first matching entry, which is updated.
updateTradeResult(history, entryPrice, exitPrice, exitTime, result) ==
  LET hits == {i \in 1..Len(history) : matchesTrade(history[i], entryPrice, exitTime)}
  IN IF hits = {} THEN history
     ELSE LET i == CHOOSE j \in hits : \A h \in hits : j <= h
          IN [history EXCEPT ![i] = [@ EXCEPT !.result = result, !.exitPrice = exitPrice,
                                               !.exitTime = exitTime]]

\* The argument generateSignalAnalysis gives logTrade for a scored pass
\* (without htfAlignment, a string nothing reads).
TradeDataOf(signal, sessionTime) ==
  [pair |-> signal.pair, signalType |-> signal.signalType, entry |-> signal.entry,
   stopLoss |-> signal.stopLoss, takeProfit |-> signal.takeProfit,
   confidence |-> signal.confidence, rsi |-> signal.technicals.rsi,
   stochastic |-> <<signal.technicals.k, signal.technicals.d>>,
   candlePattern |-> signal.technicals.candlePattern, session |-> sessionTime,
   pairAccuracy |-> getPairAccuracy(signal.pair)]

-----------------------------------------------------------------------------
(* Reasoning strings and the substrings the notification path looks for.   *)
(*   HTF_MISALIGNED   "(no-entry sign) CRITICAL: Multi-timeframe           *)
(*                     misalignment - ..."                                 *)
(*   HTF_CONFLICT     "TRADE BLOCKED: Higher timeframe conflict detected"  *)
(*   SKIP_*           "SKIP: ..."                                          *)
(*   TRADE_BLOCKED    "(no-entry sign) TRADE BLOCKED: <skipReason>"        *)
(*   FINAL_SKIPPED    "Final Confluence: 0% | Confidence: 0% (SKIPPED)"    *)
(*   SESSION_BLOCKED  "BLOCKED: Afternoon session requires confidence..."  *)
(*   RESCAN_BLOCKED   "(no-entry sign) BLOCKED: Best confidence ... still  *)
(*                     below threshold ..."                                *)
(*   RESCAN_FOUND     "RESCAN: Found quality signal on attempt ..."        *)
(*   RESCAN_MAX       "RESCAN: Max attempts (...) reached. ..."            *)
(*   FALLBACK         "No signal generated - fallback used"                *)
(* every other tag stands for a string with none of the substrings.        *)
(***************************************************************************)

SkipTags ==
  {"SKIP_OVERBOUGHT", "SKIP_OVERSOLD", "SKIP_BOLLINGER", "SKIP_VOLATILITY",
   "SKIP_EVENING", "SKIP_AFTERNOON", "SKIP_WEAK_PATTERN", "SKIP_NO_CONFIRMATION"}

\* r.includes("BLOCKED"); "TRADE BLOCKED" occurs in the same strings' subset
TagsWithBLOCKED == {"HTF_CONFLICT", "TRADE_BLOCKED", "SESSION_BLOCKED", "RESCAN_BLOCKED"}
TagsWithTRADE_BLOCKED == {"HTF_CONFLICT", "TRADE_BLOCKED"}
\* r.includes("SKIP:")
TagsWithSKIPColon == SkipTags
\* r.includes("SKIP"): also "(SKIPPED)"
TagsWithSKIP == SkipTags \cup {"FINAL_SKIPPED"}
\* r.includes(no-entry sign)
TagsWithNoEntry == {"HTF_MISALIGNED", "TRADE_BLOCKED", "RESCAN_BLOCKED"}

\* reasoning.some(r => r.includes(...)) for a set of tags
SomeIn(reasoning, tags) == \E i \in 1..Len(reasoning) : reasoning[i] \in tags

-----------------------------------------------------------------------------
(* Notification path *)

\* An absent analysis (undefined) is [present |-> FALSE, reasoning |-> << >>].
NoAnalysis == [present |-> FALSE, reasoning |-> << >>]
AnalysisOf(signal) == [present |-> TRUE, reasoning |-> signal.reasoning]

\* sendToTelegram up to the sendMessage request: TRUE when the request is issued.
sendToTelegramIssues(configured, confidence, analysis) ==
  /\ configured
  /\ ~(confidence <= 0)
  /\ ~(analysis.present /\ SomeIn(analysis.reasoning, TagsWithBLOCKED \cup TagsWithSKIP))

\* POST /api/telegram/send: the checks before the call of sendToTelegram.
routeBlocks(confidence, analysis) ==
  \/ confidence <= 0
  \/ /\ analysis.present
     /\ SomeIn(analysis.reasoning,
               TagsWithBLOCKED \cup TagsWithSKIPColon \cup TagsWithNoEntry
                 \cup TagsWithTRADE_BLOCKED)

\* The route's response and whether the sendMessage request is issued;
\* ok is Telegram's answer to the request (result.ok).
routeTelegramSend(configured, confidence, analysis, ok) ==
  IF routeBlocks(confidence, analysis)
  THEN [success |-> FALSE, blocked |-> TRUE, issued |-> FALSE]
  ELSE [success |-> sendToTelegramIssues(configured, confidence, analysis) /\ ok,
        blocked |-> FALSE,
        issued |-> sendToTelegramIssues(configured, confidence, analysis)]

-----------------------------------------------------------------------------
(* Bounds and input sets *)

\* Largest maxRescans an API caller passes (the routes' own callers use 5).
MaxRescansBound == 2

\* Thresholds an API caller passes.
Thresholds == {DEFAULT_MIN_CONFIDENCE, AUTO_SCAN_THRESHOLD}

Pairs == {"GBP/USD", "EUR/USD", "AUD/JPY"}
Dirs == {"BULLISH", "BEARISH"}

\* Server time zones, hours east of UTC.
TzOffsets == {0, 3}

\* Start of a call, seconds after midnight UTC: 08:00, 11:59:59, 13:00 and
\* 18:00 Kenya time.
StartTimes == {5 * 3600, 9 * 3600 - 1, 10 * 3600, 15 * 3600}

utcHourOf(time) == (time \div 3600) % 24

\* Close of the candle series, in points (1.2650 at 0.0001 a pip).
BasePrice == 1265000

Series(rsi, kd, macd, c2) ==
  [price |-> BasePrice, rsi |-> rsi, k |-> kd, d |-> kd,
   sma20 |-> BasePrice + 2000, sd2 |-> 10000, sma50 |-> BasePrice + 3000,
   sma200 |-> BasePrice + 4000, macd |-> macd, macdStrength |-> "LO",
   st |-> "BULLISH", pattern |-> "none", adx |-> 20, atr |-> 1000,
   c1 |-> "UP", c2 |-> c2, c3 |-> "WEAK", spike |-> FALSE, spike20 |-> FALSE,
   len |-> 100]

\* Candle series a fetch returns during a call.
ScanSeries ==
  {Series(75, kd, macd, c2) : kd \in {50, 85}, macd \in {"BULL", "BEAR"},
                               c2 \in {"UP", "WEAK"}}

-----------------------------------------------------------------------------
(* State *)

VARIABLES
  call,               \* the running generateSignalAnalysis call:
                      \* [caller, pair, maxRescans, minConfidenceThreshold]
  pc,                 \* position of the call or of its caller
  now,                \* clock, seconds after midnight UTC
  tz,                 \* server time zone, hours east of UTC
  rescanAttempt,
  bestSignal,         \* << >> for null, <<signal>> otherwise
  highestConfidence,
  candles,            \* series of the pass under way: base, M15 trend, H1 trend
  returned,           \* << >> until the call returns, then <<signal>>
  exit,               \* how the call returned: "filter", "accepted", "exhausted"
  passes,             \* history: [blocked, signal] of every completed pass
  fetches,            \* history: number of getForexCandles calls
  delays,             \* history: number of 1 s delays
  tradeHistory,
  logged,             \* history: number of logTrade calls
  telegramConfigured, \* TELEGRAM_BOT_TOKEN and TELEGRAM_CHAT_ID are set
  request,            \* notification under way: [via, confidence, analysis]
  response,           \* << >> or <<response of POST /api/telegram/send>>
  sentMessages,       \* history: sendMessage requests issued
  fetch,              \* the running getForexQuote / getForexCandles call
  priceCache,         \* Map: key -> [data, timestamp]
  candleCache,        \* Map: key -> [data, timestamp]
  stored,             \* history: the candles the provider gave last, and when,
                      \* by the pair and interval of the call that stored them
  autoScanEnabled,
  lastAutoScanTime,
  scans,              \* the runAutoScan calls under way
  alerts,             \* history: alerts runAutoScan sent, with autoScanEnabled then
  lastUpdate,         \* history: << >> or <<arguments of the last updateTradeResult call>>
  running,            \* generateSignalAnalysis calls running concurrently
  calc                \* an indicator function's call: arguments and result

vars ==
  <<call, pc, now, tz, rescanAttempt, bestSignal, highestConfidence, candles,
    returned, exit, passes, fetches, delays, tradeHistory, logged,
    telegramConfigured, request, response, sentMessages,
    fetch, priceCache, candleCache, stored,
    autoScanEnabled, lastAutoScanTime, scans, alerts,
    lastUpdate, running, calc>>

callVars == <<call, tz, telegramConfigured>>
scanVars == <<rescanAttempt, bestSignal, highestConfidence, candles, returned, exit,
              passes, fetches, delays>>
logVars == <<tradeHistory, logged, lastUpdate>>
notifyVars == <<request, response, sentMessages>>
fetchVars == <<fetch, priceCache, candleCache, stored>>
autoVars == <<autoScanEnabled, lastAutoScanTime, scans, alerts>>
concVars == <<running>>
calcVars == <<calc>>

\* new Map()
EmptyMap == [k \in {} |-> << >>]

\* No getForexQuote / getForexCandles call has been made.  The fields of a
\* call: pc ("idle", "attempt", "wait", "done"), its arguments fn, pair and
\* interval, i of fetchWithRetry's loop, the result once done, and for the
\* record: outcomes of the provider requests made, the waits taken, whether
\* fetchWithRetry threw, the clock and the caches at the start, the number of
\* calls and clock moves so far, apiKey (ALPHA_VANTAGE_API_KEY is set),
\* fresh / freshData: the provider's candles for this pair
\* and interval were stored less than CACHE_DURATION before the start, and
\* asked: << >> or <<the interval in the URL of the provider requests>>.
NoFetch ==
  [pc |-> "idle", fn |-> "none", pair |-> "", interval |-> "", i |-> 0,
   result |-> << >>, outcomes |-> << >>, waits |-> << >>, thrown |-> FALSE,
   startedAt |-> 0, before |-> << >>, calls |-> 0, ticks |-> 0, fresh |-> FALSE,
   freshData |-> << >>, apiKey |-> FALSE, asked |-> << >>]

\* The data layer at server start: empty caches, no call.
FetchIdle ==
  /\ fetch = NoFetch
  /\ priceCache = EmptyMap
  /\ candleCache = EmptyMap
  /\ stored = EmptyMap

\* The auto-scanner at server start: let autoScanEnabled = true,
\* lastAutoScanTime = 0, no scan under way.
AutoIdle ==
  /\ autoScanEnabled = TRUE
  /\ lastAutoScanTime = 0
  /\ scans = << >>
  /\ alerts = << >>

\* No updateTradeResult call yet, no concurrent call, no indicator call.
SideIdle ==
  /\ lastUpdate = << >>
  /\ running = << >>
  /\ calc = << >>

NoRequest == [via |-> "none", confidence |-> 0, analysis |-> NoAnalysis]

\* The callers of generateSignalAnalysis: the client through POST
\* /api/forex/signal or /api/forex/scan (defaults), runAutoScan (5, 75), and a
\* direct request to /api/forex/scan, which takes both values from the body.
Calls ==
  {[caller |-> "client", pair |-> p, maxRescans |-> DEFAULT_MAX_RESCANS,
    minConfidenceThreshold |-> DEFAULT_MIN_CONFIDENCE] : p \in Pairs}
  \cup {[caller |-> "auto", pair |-> p, maxRescans |-> DEFAULT_MAX_RESCANS,
         minConfidenceThreshold |-> AUTO_SCAN_THRESHOLD] : p \in Pairs}
  \cup {[caller |-> "api", pair |-> p, maxRescans |-> m, minConfidenceThreshold |-> th] :
          p \in Pairs, m \in 0..MaxRescansBound, th \in Thresholds}

Init ==
  /\ call \in Calls
  /\ pc = "loop"
  /\ now \in StartTimes
  /\ tz \in TzOffsets
  /\ rescanAttempt = 0
  /\ bestSignal = << >>
  /\ highestConfidence = 0
  /\ candles = << >>
  /\ returned = << >>
  /\ exit = "none"
  /\ passes = << >>
  /\ fetches = 0
  /\ delays = 0
  /\ tradeHistory = << >>
  /\ logged = 0
  /\ telegramConfigured = TRUE
  /\ request = NoRequest
  /\ response = << >>
  /\ sentMessages = << >>
  /\ FetchIdle
  /\ AutoIdle
  /\ SideIdle

-----------------------------------------------------------------------------
(* Rescan controller: generateSignalAnalysis *)

fallbackSignal(pair) ==
  [pair |-> pair, currentPrice |-> 0, signalType |-> "CALL", confidence |-> 0,
   entry |-> 0, stopLoss |-> 0, takeProfit |-> 0,
   technicals |-> [rsi |-> 50, macd |-> "FLAT", sma20 |-> 0, sma50 |-> 0, sma200 |-> 0,
                   bbUpper |-> 0, bbLower |-> 0, breakout |-> FALSE, k |-> 50, d |-> 50,
                   atr |-> 0, adx |-> 0, supertrend |-> "NEUTRAL",
                   candlePattern |-> "none", momentum |-> "WEAK", volatility |-> "LOW"],
   reasoning |-> <<"FALLBACK">>]

\* Variant: the best signal goes back with the confidence it has.
AfterLoop_KeepConfidence(c, best, highest) ==
  IF best # << >>
  THEN [best[1] EXCEPT !.reasoning = @ \o <<"RESCAN_MAX">>]
  ELSE fallbackSignal(c.pair)

\* After the loop: the best signal, its confidence forced to 0 below the
\* threshold, or the fallback when bestSignal is null.
AfterLoop(c, best, highest) ==
  IF best # << >>
  THEN IF highest < c.minConfidenceThreshold
       THEN [best[1] EXCEPT !.reasoning = @ \o <<"RESCAN_MAX", "RESCAN_BLOCKED">>,
                            !.confidence = 0]
       ELSE [best[1] EXCEPT !.reasoning = @ \o <<"RESCAN_MAX">>]
  ELSE fallbackSignal(c.pair)

\* Variant: the loop condition reads rescanAttempt <= maxRescans.
FetchBase_OneMore ==
  /\ pc = "loop"
  /\ rescanAttempt <= call.maxRescans
  /\ rescanAttempt' = rescanAttempt + 1
  /\ \E t \in ScanSeries : candles' = <<t>>
  /\ fetches' = fetches + 1
  /\ pc' = "fetchM15"
  /\ UNCHANGED <<now, bestSignal, highestConfidence, returned, exit, passes, delays>>
  /\ UNCHANGED <<concVars, calcVars, fetchVars, autoVars, callVars, logVars, notifyVars>>

\* while (rescanAttempt < maxRescans) { rescanAttempt++;
\*   candles = await getForexCandles(pair, interval, apiKey)
FetchBase ==
  /\ pc = "loop"
  /\ rescanAttempt < call.maxRescans
  /\ rescanAttempt' = rescanAttempt + 1
  /\ \E t \in ScanSeries : candles' = <<t>>
  /\ fetches' = fetches + 1
  /\ pc' = "fetchM15"
  /\ UNCHANGED <<now, bestSignal, highestConfidence, returned, exit, passes, delays>>
  /\ UNCHANGED <<concVars, calcVars, fetchVars, autoVars, callVars, logVars, notifyVars>>

\* The loop condition fails on entry (maxRescans = 0): the code after the loop.
LoopExit ==
  /\ pc = "loop"
  /\ ~(rescanAttempt < call.maxRescans)
  /\ returned' = <<AfterLoop(call, bestSignal, highestConfidence)>>
  /\ exit' = "exhausted"
  /\ pc' = "returned"
  /\ UNCHANGED <<now, rescanAttempt, bestSignal, highestConfidence, candles, passes,
                 fetches, delays>>
  /\ UNCHANGED <<concVars, calcVars, fetchVars, autoVars, callVars, logVars, notifyVars>>

\* candlesM15 = await getForexCandles(pair, "15min", apiKey): only the
\* Supertrend direction of the series is read.
FetchM15 ==
  /\ pc = "fetchM15"
  /\ \E dir \in Dirs : candles' = Append(candles, dir)
  /\ fetches' = fetches + 1
  /\ pc' = "fetchH1"
  /\ UNCHANGED <<now, rescanAttempt, bestSignal, highestConfidence, returned, exit,
                 passes, delays>>
  /\ UNCHANGED <<concVars, calcVars, fetchVars, autoVars, callVars, logVars, notifyVars>>

\* candlesH1 = await getForexCandles(pair, "60min", apiKey)
FetchH1 ==
  /\ pc = "fetchH1"
  /\ \E dir \in Dirs : candles' = Append(candles, dir)
  /\ fetches' = fetches + 1
  /\ pc' = "analyse"
  /\ UNCHANGED <<now, rescanAttempt, bestSignal, highestConfidence, returned, exit,
                 passes, delays>>
  /\ UNCHANGED <<concVars, calcVars, fetchVars, autoVars, callVars, logVars, notifyVars>>

\* The pass under way, analysed at the current clock.
CurrentPass ==
  AnalysePass(call.pair, candles[1], candles[2], candles[3], utcHourOf(now), tz)

\* Variant: the first signal kept is never replaced.
BestAfter_KeepFirst(signal) ==
  IF bestSignal # << >> THEN bestSignal ELSE <<signal>>

\* if (confidence > highestConfidence) { highestConfidence = confidence; bestSignal = currentSignal }
BestAfter(signal) ==
  IF signal.confidence > highestConfidence THEN <<signal>> ELSE bestSignal
HighestAfter(signal) ==
  IF signal.confidence > highestConfidence THEN signal.confidence ELSE highestConfidence

\* confidence >= minConfidenceThreshold && confidence > 0
Accepts(c, signal) ==
  signal.confidence >= c.minConfidenceThreshold /\ signal.confidence > 0

\* Variant: every scored pass is logged.
LogPass_Always(signal) ==
  /\ tradeHistory' = logTrade(tradeHistory,
                              TradeDataOf(signal, getCurrentSessionTime(utcHourOf(now), tz)),
                              now, logged + 1)
  /\ logged' = logged + 1
  /\ UNCHANGED lastUpdate

\* if (confidence > 0) logTrade({...})
LogPass(signal) ==
  IF signal.confidence > 0
  THEN /\ tradeHistory' = logTrade(tradeHistory,
                                   TradeDataOf(signal, getCurrentSessionTime(utcHourOf(now), tz)),
                                   now, logged + 1)
       /\ logged' = logged + 1
       /\ UNCHANGED lastUpdate
  ELSE UNCHANGED logVars

\* A hard veto fired: the early return inside the loop body returns from
\* generateSignalAnalysis.
AnalyseBlocked ==
  /\ pc = "analyse"
  /\ CurrentPass.blocked
  /\ passes' = Append(passes, CurrentPass)
  /\ returned' = <<CurrentPass.signal>>
  /\ exit' = "filter"
  /\ pc' = "returned"
  /\ UNCHANGED <<now, rescanAttempt, bestSignal, highestConfidence, candles, fetches, delays>>
  /\ UNCHANGED <<concVars, calcVars, fetchVars, autoVars, callVars, logVars, notifyVars>>

\* Scored pass at or above the threshold: return bestSignal.
AnalyseAccepted ==
  /\ pc = "analyse"
  /\ ~CurrentPass.blocked
  /\ Accepts(call, CurrentPass.signal)
  /\ LogPass(CurrentPass.signal)
  /\ passes' = Append(passes, CurrentPass)
  /\ bestSignal' = BestAfter(CurrentPass.signal)
  /\ highestConfidence' = HighestAfter(CurrentPass.signal)
  /\ returned' = <<[bestSignal'[1] EXCEPT !.reasoning = @ \o <<"RESCAN_FOUND">>]>>
  /\ exit' = "accepted"
  /\ pc' = "returned"
  /\ UNCHANGED <<now, rescanAttempt, candles, fetches, delays>>
  /\ UNCHANGED <<concVars, calcVars, fetchVars, autoVars, callVars, notifyVars>>

\* Scored pass below the threshold with attempts left: delay, then rescan.
AnalyseRescan ==
  /\ pc = "analyse"
  /\ ~CurrentPass.blocked
  /\ ~Accepts(call, CurrentPass.signal)
  /\ rescanAttempt < call.maxRescans
  /\ LogPass(CurrentPass.signal)
  /\ passes' = Append(passes, CurrentPass)
  /\ bestSignal' = BestAfter(CurrentPass.signal)
  /\ highestConfidence' = HighestAfter(CurrentPass.signal)
  /\ pc' = "delay"
  /\ UNCHANGED <<now, rescanAttempt, candles, returned, exit, fetches, delays>>
  /\ UNCHANGED <<concVars, calcVars, fetchVars, autoVars, callVars, notifyVars>>

\* Scored pass below the threshold, no attempt left: break, then the code
\* after the loop.
AnalyseExhausted ==
  /\ pc = "analyse"
  /\ ~CurrentPass.blocked
  /\ ~Accepts(call, CurrentPass.signal)
  /\ ~(rescanAttempt < call.maxRescans)
  /\ LogPass(CurrentPass.signal)
  /\ passes' = Append(passes, CurrentPass)
  /\ bestSignal' = BestAfter(CurrentPass.signal)
  /\ highestConfidence' = HighestAfter(CurrentPass.signal)
  /\ returned' = <<AfterLoop(call, bestSignal', highestConfidence')>>
  /\ exit' = "exhausted"
  /\ pc' = "returned"
  /\ UNCHANGED <<now, rescanAttempt, candles, fetches, delays>>
  /\ UNCHANGED <<concVars, calcVars, fetchVars, autoVars, callVars, notifyVars>>

\* await new Promise(resolve => setTimeout(resolve, 1000)); continue
Delay ==
  /\ pc = "delay"
  /\ now' = now + 1
  /\ delays' = delays + 1
  /\ pc' = "loop"
  /\ UNCHANGED <<rescanAttempt, bestSignal, highestConfidence, candles, returned, exit,
                 passes, fetches>>
  /\ UNCHANGED <<concVars, calcVars, fetchVars, autoVars, callVars, logVars, notifyVars>>

-----------------------------------------------------------------------------
(* Callers' use of the returned signal *)

\* runAutoScan: signals.filter(s => s.confidence >= 85), then for each
\* sendToTelegram(signalData, signal, true).
AutoScanNotify ==
  /\ pc = "returned"
  /\ call.caller = "auto"
  /\ LET signal == returned[1]
         send == signal.confidence >= AUTO_SCAN_SEND_MIN
         req == [via |-> "auto", confidence |-> signal.confidence,
                 analysis |-> AnalysisOf(signal)]
     IN /\ request' = IF send THEN req ELSE request
        /\ sentMessages' =
             IF send /\ sendToTelegramIssues(telegramConfigured, req.confidence, req.analysis)
             THEN Append(sentMessages, req) ELSE sentMessages
  /\ pc' = "done"
  /\ UNCHANGED <<now, response>>
  /\ UNCHANGED <<concVars, calcVars, fetchVars, autoVars, callVars, scanVars, logVars>>

\* Client generateSignal: a result below MIN_CONFIDENCE_THRESHOLD is not
\* sent; otherwise the signal built from it is posted to /api/telegram/send.
ClientPost ==
  /\ pc = "returned"
  /\ call.caller = "client"
  /\ returned[1].confidence >= MIN_CONFIDENCE_THRESHOLD
  /\ request' = [via |-> "route", confidence |-> returned[1].confidence,
                 analysis |-> AnalysisOf(returned[1])]
  /\ pc' = "route"
  /\ UNCHANGED <<now, response, sentMessages>>
  /\ UNCHANGED <<concVars, calcVars, fetchVars, autoVars, callVars, scanVars, logVars>>

ClientSkip ==
  /\ pc = "returned"
  /\ call.caller = "client"
  /\ ~(returned[1].confidence >= MIN_CONFIDENCE_THRESHOLD)
  /\ pc' = "done"
  /\ UNCHANGED <<now>>
  /\ UNCHANGED <<concVars, calcVars, fetchVars, autoVars, callVars, scanVars, logVars, notifyVars>>

\* POST /api/telegram/send with the posted signal and analysis.
RouteTelegramSend ==
  /\ pc = "route"
  /\ \E ok \in BOOLEAN :
       LET r == routeTelegramSend(telegramConfigured, request.confidence,
                                  request.analysis, ok)
       IN /\ response' = <<[success |-> r.success, blocked |-> r.blocked]>>
          /\ sentMessages' = IF r.issued THEN Append(sentMessages, request)
                             ELSE sentMessages
  /\ pc' = "done"
  /\ UNCHANGED <<now, request>>
  /\ UNCHANGED <<concVars, calcVars, fetchVars, autoVars, callVars, scanVars, logVars>>

\* A direct API request: the signal goes back in the response, nothing else.
ApiRespond ==
  /\ pc = "returned"
  /\ call.caller = "api"
  /\ pc' = "done"
  /\ UNCHANGED <<now>>
  /\ UNCHANGED <<concVars, calcVars, fetchVars, autoVars, callVars, scanVars, logVars, notifyVars>>

Next ==
  \/ FetchBase
  \/ LoopExit
  \/ FetchM15
  \/ FetchH1
  \/ AnalyseBlocked
  \/ AnalyseAccepted
  \/ AnalyseRescan
  \/ AnalyseExhausted
  \/ Delay
  \/ AutoScanNotify
  \/ ClientPost
  \/ ClientSkip
  \/ RouteTelegramSend
  \/ ApiRespond

Spec == Init /\ [][Next]_vars

-----------------------------------------------------------------------------
(* Properties of the rescan controller *)

Returned == returned # << >>

\* Confidences of the completed passes, in order.
PassConfidence(i) == passes[i].signal.confidence

\* C1: after the rescan budget is exhausted without acceptance the returned
\* confidence is exactly 0, and no call returns a confidence strictly
\* between 0 and minConfidenceThreshold.
C1_ExhaustionReturnsZero ==
  Returned =>
    /\ exit = "exhausted" => returned[1].confidence = 0
    /\ ~(0 < returned[1].confidence
         /\ returned[1].confidence < call.minConfidenceThreshold)

\* Five passes, each with a confidence strictly between 0 and the threshold.
C1_Witness ==
  /\ exit = "exhausted"
  /\ Len(passes) = 5
  /\ \A i \in 1..5 : 0 < PassConfidence(i) /\ PassConfidence(i) < call.minConfidenceThreshold
  /\ returned[1].confidence = 0

\* Some step of the call is enabled: the disjunction of the guards of
\* FetchBase, LoopExit, FetchM15, FetchH1, the four Analyse actions and Delay.
CallCanStep ==
  \/ pc = "loop" /\ rescanAttempt < call.maxRescans /\ ScanSeries # {}
  \/ pc = "loop" /\ ~(rescanAttempt < call.maxRescans)
  \/ pc \in {"fetchM15", "fetchH1"} /\ Dirs # {}
  \/ pc = "analyse" /\ CurrentPass.blocked
  \/ pc = "analyse" /\ ~CurrentPass.blocked /\ Accepts(call, CurrentPass.signal)
  \/ pc = "analyse" /\ ~CurrentPass.blocked /\ ~Accepts(call, CurrentPass.signal)
       /\ rescanAttempt < call.maxRescans
  \/ pc = "analyse" /\ ~CurrentPass.blocked /\ ~Accepts(call, CurrentPass.signal)
       /\ ~(rescanAttempt < call.maxRescans)
  \/ pc = "delay"

\* Number of steps the call can still take, at most.
CallMeasure ==
  IF Returned THEN 0
  ELSE 5 * (call.maxRescans - rescanAttempt)
       + (CASE pc = "loop" -> 1 [] pc = "fetchM15" -> 5 [] pc = "fetchH1" -> 4
            [] pc = "analyse" -> 3 [] pc = "delay" -> 2 [] OTHER -> 0)

\* C2: a call runs at most maxRescans passes (three fetches each) and then
\* returns: until it has returned it can always take a step, and every step
\* lowers CallMeasure, a natural number, so the return comes after at most
\* 5 * maxRescans + 1 steps.
C2_BoundedPassesThenReturns ==
  /\ [](/\ Len(passes) <= call.maxRescans
        /\ rescanAttempt <= call.maxRescans
        /\ fetches <= 3 * call.maxRescans)
  /\ [](~Returned => (CallMeasure > 0 /\ CallCanStep))
  /\ [][~Returned => CallMeasure' < CallMeasure]_vars

\* A call that used its whole budget of five passes.
C2_Witness ==
  Returned /\ call.maxRescans = 5 /\ Len(passes) = 5 /\ fetches = 15

\* C3: a pass with confidence > 0 and >= minConfidenceThreshold is the last
\* pass of the call; the call has returned that pass's result (with the
\* rescan note appended to its reasoning), and no fetch, delay or pass
\* follows it.
C3_FirstAcceptableEndsCall ==
  \A i \in 1..Len(passes) :
    (PassConfidence(i) > 0 /\ PassConfidence(i) >= call.minConfidenceThreshold) =>
      /\ i = Len(passes)
      /\ exit = "accepted"
      /\ Returned
      /\ returned[1] = [passes[i].signal EXCEPT !.reasoning = @ \o <<"RESCAN_FOUND">>]
      /\ fetches = 3 * i
      /\ delays = i - 1
      /\ pc \in {"returned", "route", "done"}

\* Accepted on a later pass, after a pass that scored above 0.
C3_Witness ==
  /\ exit = "accepted"
  /\ Len(passes) >= 3
  /\ PassConfidence(1) > 0
  /\ pc = "done"

\* C5 (as claimed): after exhaustion with at least one completed pass the
\* call returns the result of the highest-confidence pass, not the fallback.
C5_ExhaustionReturnsBestPass ==
  (exit = "exhausted" /\ Len(passes) > 0) =>
    \E i \in 1..Len(passes) :
      /\ \A j \in 1..Len(passes) : PassConfidence(j) <= PassConfidence(i)
      /\ returned[1].pair = passes[i].signal.pair
      /\ returned[1].currentPrice = passes[i].signal.currentPrice
      /\ returned[1].entry = passes[i].signal.entry
      /\ returned[1].stopLoss = passes[i].signal.stopLoss
      /\ returned[1].takeProfit = passes[i].signal.takeProfit
      /\ returned[1].technicals = passes[i].signal.technicals

\* C6 (as claimed): a call returns only on acceptance or after maxRescans
\* passes have completed.
C6_ReturnsOnlyOnAcceptanceOrExhaustion ==
  Returned => (exit = "accepted" \/ Len(passes) = call.maxRescans)

\* C8 (as claimed): every sendMessage request carries a confidence >= 85.
C8_AlertsOnlyFrom85 ==
  \A i \in 1..Len(sentMessages) : sentMessages[i].confidence >= 85

\* The passes that scored above 0, in order.
PositivePasses == SelectSeq(passes, LAMBDA p : p.signal.confidence > 0)

\* C9: the trade log holds exactly one PENDING entry per pass with
\* confidence > 0, in pass order, carrying that pass's confidence, entry,
\* stopLoss and takeProfit, whatever the call returns; passes with
\* confidence 0 leave no entry.
C9_OneLogEntryPerPositivePass ==
  /\ Len(tradeHistory) = Len(PositivePasses)
  /\ logged = Len(PositivePasses)
  /\ \A i \in 1..Len(tradeHistory) :
       /\ tradeHistory[i].result = "PENDING"
       /\ tradeHistory[i].confidence = PositivePasses[i].signal.confidence
       /\ tradeHistory[i].entry = PositivePasses[i].signal.entry
       /\ tradeHistory[i].stopLoss = PositivePasses[i].signal.stopLoss
       /\ tradeHistory[i].takeProfit = PositivePasses[i].signal.takeProfit

\* A call that returned confidence 0 after passes of confidence > 0 and of
\* confidence 0.
C9_Witness ==
  /\ exit = "exhausted"
  /\ returned[1].confidence = 0
  /\ Len(tradeHistory) >= 2
  /\ Len(tradeHistory) < Len(passes)

-----------------------------------------------------------------------------
(* One pass over a wide range of candle series *)

\* Candle series of 100 candles over the oscillator zones, the Bollinger
\* band width, the volatility spike, the last candles and the pattern.
LongSeries ==
  {[Series(rsi, 50, "BULL", c2) EXCEPT !.k = kd[1], !.d = kd[2], !.sd2 = sd2,
                                       !.spike = spike, !.pattern = pattern] :
     rsi \in {2, 50, 93, 98},
     kd \in {<<50, 50>>, <<95, 50>>, <<50, 99>>, <<1, 50>>},
     c2 \in {"UP", "WEAK"},
     sd2 \in {10000, 1000},
     spike \in BOOLEAN,
     pattern \in {"none", "doji", "hammer"}}

\* A series of three candles: too short for the candle confirmation, and for
\* calculateSupertrend, which gives "NEUTRAL" below 11 candles.
ShortSeries == {[Series(50, 50, "FLAT", "UP") EXCEPT !.len = 3, !.st = "NEUTRAL"]}

\* Series at the bounds of the extreme-zone veto (3 and 97, 4 and 96 for JPY
\* pairs), with a strong pattern, which the weak-pattern veto lets through.
EdgeSeries ==
  {[Series(rsi, 50, "BULL", "UP") EXCEPT !.k = kd[1], !.d = kd[2], !.pattern = "hammer"] :
     rsi \in {3, 4, 50, 96, 97},
     kd \in {<<50, 50>>, <<97, 50>>, <<50, 3>>, <<98, 50>>, <<50, 2>>}}

\* Series whose indicators vote for either side in many proportions, for the
\* scoring stage: MACD, RSI, stochastic, the moving averages (above or below
\* the close), the candle pattern and ADX vary.
ScoreSeries ==
  {[Series(rsi, kd, macd, "UP") EXCEPT !.sma20 = BasePrice + sma, !.sma50 = BasePrice + sma,
                                       !.sma200 = BasePrice + sma, !.pattern = pattern,
                                       !.adx = adx] :
     rsi \in {25, 50, 75, 92},
     kd \in {15, 50, 85},
     macd \in {"BULL", "BEAR", "FLAT"},
     sma \in {-2000, 2000},
     pattern \in {"none", "hammer", "shooting_star"},
     adx \in {20, 45}}

PassSeries == LongSeries \cup ShortSeries \cup ScoreSeries \cup EdgeSeries

\* A call with a single pass that has fetched its three series.
PassInit ==
  /\ call \in {[caller |-> "api", pair |-> p, maxRescans |-> 1,
                minConfidenceThreshold |-> DEFAULT_MIN_CONFIDENCE] : p \in Pairs}
  /\ pc = "analyse"
  /\ now \in StartTimes
  /\ tz \in TzOffsets
  /\ rescanAttempt = 1
  /\ bestSignal = << >>
  /\ highestConfidence = 0
  /\ candles \in {<<t, m15Trend, h1Trend>> :
                    t \in PassSeries, m15Trend \in Dirs, h1Trend \in Dirs}
  /\ returned = << >>
  /\ exit = "none"
  /\ passes = << >>
  /\ fetches = 3
  /\ delays = 0
  /\ tradeHistory = << >>
  /\ logged = 0
  /\ telegramConfigured = TRUE
  /\ request = NoRequest
  /\ response = << >>
  /\ sentMessages = << >>
  /\ FetchIdle
  /\ AutoIdle
  /\ SideIdle

PassNext == AnalyseBlocked \/ AnalyseAccepted \/ AnalyseExhausted

PassSpec == PassInit /\ [][PassNext]_vars

\* Some hard veto fires on the pass: the conditions of the filter stage.
HardVetoFires(pair, t, m15Trend, h1Trend, utcHour) ==
  \/ ~(t.st = m15Trend /\ t.st = h1Trend)
  \/ extremeOverbought(pair, t)
  \/ extremeOversold(pair, t)
  \/ bollingerExtreme(t)
  \/ volatilitySpike(t)
  \/ eveningBlock(pair, utcHour)
  \/ afternoonBlock(pair, utcHour)
  \/ ~hasConsecutiveConfirmation(t)
  \/ weakPatternInExtremeZone(t)

\* Tags only the scoring stage pushes.
ScoringTags ==
  {"PAIR_SESSION", "CANDLES_CONFIRMED", "FINAL_CONFLUENCE", "HTF_SUMMARY"}

\* C4: a pass on which some hard veto fires gives confidence 0, entry =
\* currentPrice, stopLoss 15 pips below and takeProfit 30 pips above it, and
\* the scoring stage has not run for it: no scoring reasoning, nothing
\* logged, the call returned from the filter stage.
C4_VetoedPassIsZeroed ==
  (Len(passes) = 1 /\ Len(candles) = 3
   /\ HardVetoFires(call.pair, candles[1], candles[2], candles[3], utcHourOf(now))) =>
    LET signal == passes[1].signal
    IN /\ signal.confidence = 0
       /\ signal.currentPrice = candles[1].price
       /\ signal.entry = signal.currentPrice
       /\ signal.stopLoss = signal.currentPrice - 15 * PipValue
       /\ signal.takeProfit = signal.currentPrice + 30 * PipValue
       /\ ~SomeIn(signal.reasoning, ScoringTags)
       /\ passes[1].blocked
       /\ exit = "filter"
       /\ logged = 0

\* A pass vetoed for the missing candle confirmation alone, in the morning
\* session on a high-accuracy pair.
C4_Witness ==
  /\ Len(passes) = 1
  /\ Len(candles) = 3
  /\ ~hasConsecutiveConfirmation(candles[1])
  /\ candles[1].len >= 4
  /\ isHTFAligned(candles[1], candles[2], candles[3])
  /\ ~extremeOverbought(call.pair, candles[1])
  /\ ~extremeOversold(call.pair, candles[1])
  /\ ~volatilitySpike(candles[1])
  /\ ~eveningBlock(call.pair, utcHourOf(now))
  /\ ~afternoonBlock(call.pair, utcHourOf(now))
  /\ ~isExtremeZone(candles[1])
  /\ passes[1].signal.confidence = 0
  /\ passes[1].signal.reasoning = <<"HTF_PERFECT", "SKIP_NO_CONFIRMATION",
                                    "TRADE_BLOCKED", "FINAL_SKIPPED">>

\* sessionTime of the pass.
PassSession == getCurrentSessionTime(utcHourOf(now), tz)

\* The scoring stage on the series of the pass, with its intermediate values
\* (scoreDiff, capped, preGate).
PassScore ==
  ScoreStage(call.pair, candles[1], candles[2], candles[3], PassSession, << >>)

\* The call has made its pass, and the pass was scored.
ScoredPass == pc = "returned" /\ Len(passes) = 1 /\ ~passes[1].blocked

\* C12: the confidence of every computed signal is an integer from 0 to 100:
\* of every pass (blocked or scored), of the best signal kept and of the
\* signal returned (accepted, exhausted or fallback).
C12_ConfidenceInRange ==
  /\ \A i \in 1..Len(passes) : passes[i].signal.confidence \in 0..100
  /\ bestSignal # << >> => bestSignal[1].confidence \in 0..100
  /\ returned # << >> => returned[1].confidence \in 0..100

\* A scored pass was returned with the highest confidence of the top tier.
C12_Witness ==
  /\ ScoredPass
  /\ exit = "accepted"
  /\ returned[1].confidence = 98

\* C13: the confidence of a scored pass is at most the cap of the tier of its
\* score difference: 56 below 20, 70 below 40, 85 below 60, 98 otherwise.
C13_ConfidenceWithinTierCap ==
  ScoredPass =>
    \A sc \in {PassScore} : \A c \in {passes[1].signal.confidence} :
      /\ sc.scoreDiff < 20 => c <= 56
      /\ sc.scoreDiff < 40 => c <= 70
      /\ sc.scoreDiff < 60 => c <= 85
      /\ c <= 98

\* A pass of the third tier whose bonuses (ADX, momentum, pair accuracy,
\* aligned pattern, HTF alignment) carry it beyond the cap, which holds it at 85.
C13_Witness ==
  /\ ScoredPass
  /\ candles[1].adx > 40
  /\ candles[1].pattern \in bullishPatterns
  /\ getPairAccuracy(call.pair) = "HIGH"
  /\ PassScore.scoreDiff >= 40 /\ PassScore.scoreDiff < 60
  /\ passes[1].signal.confidence = 85

KenyaSession(utcHour) ==
  LET sessionHour == getKenyaHour(utcHour)
  IN IF sessionHour >= 7 /\ sessionHour < 12 THEN "MORNING"
     ELSE IF sessionHour >= 12 /\ sessionHour < 17 THEN "AFTERNOON"
     ELSE "EVENING"

\* The session/pair restriction applies to the call.
SessionRestricted ==
  \/ KenyaSession(utcHourOf(now)) = "EVENING" /\ getPairAccuracy(call.pair) # "HIGH"
  \/ KenyaSession(utcHourOf(now)) = "AFTERNOON" /\ getPairAccuracy(call.pair) = "LOW"

\* C15: in the evening session (Kenya time) with a pair that is not of HIGH
\* accuracy, and in the afternoon session with a pair of LOW accuracy, the
\* pass is vetoed and generateSignalAnalysis returns confidence 0, whatever
\* the series and the trends are.
C15_SessionVetoUnconditional ==
  (SessionRestricted /\ pc = "returned") =>
    /\ exit = "filter"
    /\ passes[Len(passes)].blocked
    /\ returned[1].confidence = 0
    /\ \E i \in 1..Len(returned[1].reasoning) :
         returned[1].reasoning[i] \in {"SKIP_EVENING", "SKIP_AFTERNOON"}

\* The evening session with a MEDIUM-accuracy pair: no other veto fired and
\* the scoring stage would have given the series 85 or more.
C15_Witness ==
  /\ pc = "returned"
  /\ KenyaSession(utcHourOf(now)) = "EVENING"
  /\ getPairAccuracy(call.pair) = "MEDIUM"
  /\ returned[1].confidence = 0
  /\ returned[1].reasoning = <<"HTF_PERFECT", "SKIP_EVENING", "TRADE_BLOCKED",
                               "FINAL_SKIPPED">>
  /\ PassScore.preGate >= 85

\* The strings of generateSignalAnalysis that contain "EXTREME RSI" when
\* the case of the letters is ignored: "(warning sign) Extreme RSI zone (...) -
\* confidence reduced by 12%", pushed by the scoring stage.  The strings of
\* the extreme-zone veto read "SKIP: Extreme overbought (RSI: ...".
TagsWithExtremeRSI == {"EXTREME_RSI_ZONE_12"}

\* The vetoes that fire on the pass, by the tag of the string each pushes.
FiredVetoTags ==
  LET t == candles[1]
  IN {tag \in SkipTags \cup {"HTF_CONFLICT"} :
        \/ tag = "HTF_CONFLICT" /\ ~isHTFAligned(t, candles[2], candles[3])
        \/ tag = "SKIP_OVERBOUGHT" /\ extremeOverbought(call.pair, t)
        \/ tag = "SKIP_OVERSOLD" /\ extremeOversold(call.pair, t)
        \/ tag = "SKIP_BOLLINGER" /\ bollingerExtreme(t)
        \/ tag = "SKIP_VOLATILITY" /\ volatilitySpike(t)
        \/ tag = "SKIP_EVENING" /\ eveningBlock(call.pair, utcHourOf(now))
        \/ tag = "SKIP_AFTERNOON" /\ afternoonBlock(call.pair, utcHourOf(now))
        \/ tag = "SKIP_WEAK_PATTERN" /\ weakPatternInExtremeZone(t)
        \/ tag = "SKIP_NO_CONFIRMATION" /\ ~hasConsecutiveConfirmation(t)}

\* C22 (as claimed): the reasoning of a blocked pass lists every veto that
\* applies to it; in particular it has the candle-confirmation string whenever
\* the last candles lack 2 consecutive same-direction candles, also when an
\* earlier veto has fired.
C22_ReasoningListsEveryVeto ==
  (pc = "returned" /\ Len(passes) = 1 /\ passes[1].blocked) =>
    \A tag \in FiredVetoTags : SomeIn(passes[1].signal.reasoning, {tag})

\* The RSI bound of the extreme-zone veto is passed.
RsiBeyondBound(pair, t) == t.rsi > rsiUpperExtreme(pair) \/ t.rsi < rsiLowerExtreme(pair)

\* Stochastic %K or %D is above 97 or below 3.
StochBeyondBound(t) == t.k > 97 \/ t.k < 3 \/ t.d > 97 \/ t.d < 3

\* The extreme-zone half of C23: beyond the bounds the pass is vetoed with
\* confidence 0, whatever the other indicators, the session and the pair are.
ExtremeZoneVetoes ==
  (pc = "returned" /\ Len(passes) = 1
   /\ (RsiBeyondBound(call.pair, candles[1]) \/ StochBeyondBound(candles[1]))) =>
    /\ passes[1].blocked
    /\ exit = "filter"
    /\ returned[1].confidence = 0

\* C23 (as claimed): RSI above 97 or below 3 (96 and 4 for JPY pairs), or
\* Stochastic %K or %D above 97 or below 3, vetoes the pass with confidence
\* 0; when the RSI bound is passed the reasoning has an "EXTREME RSI" marker.
C23_ExtremeZoneVetoWithMarker ==
  /\ ExtremeZoneVetoes
  /\ (pc = "returned" /\ Len(passes) = 1 /\ RsiBeyondBound(call.pair, candles[1])) =>
       SomeIn(returned[1].reasoning, TagsWithExtremeRSI)

\* Distance of the stop and of the target from the entry, in the trade direction.
StopDistance(s) == IF s.signalType = "CALL" THEN s.entry - s.stopLoss ELSE s.stopLoss - s.entry
TargetDistance(s) ==
  IF s.signalType = "CALL" THEN s.takeProfit - s.entry ELSE s.entry - s.takeProfit

\* C25 (as claimed): in every scored pass the target distance is the stop
\* distance times the risk-reward ratio of the tier of the confidence the
\* pass reports (3.0 above 90, 2.5 above 80, 2.0 above 70, else 1.8), and
\* stop and target lie on either side of the entry in the trade direction.
C25_TargetIsStopTimesReportedTier ==
  ScoredPass =>
    \A s \in {passes[1].signal} :
      /\ StopDistance(s) > 0
      /\ TargetDistance(s) > 0
      /\ 10 * TargetDistance(s) = StopDistance(s) * riskRewardRatio10(s.confidence)

\* C30 (as claimed): the session of the hard session/pair veto (from
\* getKenyaHour) and the session of strict mode and the soft gate
\* (getCurrentSessionTime) are the same in a pass, for every clock value and
\* server time zone.
C30_OneSessionPerPass ==
  (pc = "returned" /\ Len(passes) = 1) => KenyaSession(utcHourOf(now)) = PassSession

\* C28 (as claimed): the Supertrend direction in the technicals of every
\* pass (analyzeTechnicals of its base series) and of every signal
\* generateSignalAnalysis returns is BULLISH or BEARISH.
C28_SupertrendDirection ==
  /\ \A i \in 1..Len(passes) : passes[i].signal.technicals.supertrend \in Dirs
  /\ returned # << >> => returned[1].technicals.supertrend \in Dirs

\* Strict mode at the given time: session AFTERNOON and a pair of MEDIUM or
\* LOW accuracy.
StrictModeAt(time) ==
  /\ getCurrentSessionTime(utcHourOf(time), tz) = "AFTERNOON"
  /\ getPairAccuracy(call.pair) \in {"MEDIUM", "LOW"}

\* C29: when the whole call runs in strict mode (from its start, the clock
\* less the delays taken, to the current clock), every pass has a confidence
\* of at most 55, and for a threshold above 55 the call returns confidence 0.
C29_StrictModeReturnsZero ==
  (StrictModeAt(now - delays) /\ StrictModeAt(now)) =>
    /\ \A i \in 1..Len(passes) : passes[i].signal.confidence <= 55
    /\ (returned # << >> /\ call.minConfidenceThreshold > 55) =>
         returned[1].confidence = 0

\* A pass of a strict-mode call that was scored above 0 (its score
\* difference carried it through the soft gate), and the call returned 0.
C29_Witness ==
  /\ StrictModeAt(now - delays) /\ StrictModeAt(now)
  /\ returned # << >>
  /\ returned[1].confidence = 0
  /\ \E i \in 1..Len(passes) :
       ~passes[i].blocked /\ passes[i].signal.confidence > 0

-----------------------------------------------------------------------------
(* Notification entry points with arbitrary requests *)

\* sendMessage requests one run may issue.
MaxSentMessages == 2

\* Confidences of the signals handed to the notification path.
NotifyConfidences == {-10, 0, 60, 90}

\* Reasoning lists of the analyses handed to it.
NotifyReasonings ==
  {<<"HTF_PERFECT", "FINAL_CONFLUENCE">>,
   <<"HTF_MISALIGNED">>,
   <<"HTF_PERFECT", "SKIP_OVERBOUGHT">>,
   <<"FINAL_SKIPPED">>,
   <<"HTF_PERFECT", "SESSION_BLOCKED", "FINAL_CONFLUENCE">>,
   <<"HTF_MISALIGNED", "HTF_CONFLICT", "TRADE_BLOCKED", "FINAL_SKIPPED">>}

NotifyAnalyses ==
  {NoAnalysis} \cup {[present |-> TRUE, reasoning |-> r] : r \in NotifyReasonings}

NotifyInit ==
  /\ call = [caller |-> "none", pair |-> "GBP/USD", maxRescans |-> 0,
             minConfidenceThreshold |-> DEFAULT_MIN_CONFIDENCE]
  /\ pc = "idle"
  /\ now = 5 * 3600
  /\ tz = 0
  /\ rescanAttempt = 0
  /\ bestSignal = << >>
  /\ highestConfidence = 0
  /\ candles = << >>
  /\ returned = << >>
  /\ exit = "none"
  /\ passes = << >>
  /\ fetches = 0
  /\ delays = 0
  /\ tradeHistory = << >>
  /\ logged = 0
  /\ telegramConfigured \in BOOLEAN
  /\ request = NoRequest
  /\ response = << >>
  /\ sentMessages = << >>
  /\ FetchIdle
  /\ AutoIdle
  /\ SideIdle

\* sendToTelegram(signal, analysis) called with any signal and analysis;
\* its boolean result is kept as the response.
SendToTelegram ==
  /\ pc \in {"idle", "done"}
  /\ Len(sentMessages) < MaxSentMessages
  /\ \E confidence \in NotifyConfidences, analysis \in NotifyAnalyses, ok \in BOOLEAN :
       LET req == [via |-> "direct", confidence |-> confidence, analysis |-> analysis]
           issued == sendToTelegramIssues(telegramConfigured, confidence, analysis)
       IN /\ request' = req
          /\ response' = <<[success |-> issued /\ ok, blocked |-> FALSE]>>
          /\ sentMessages' = IF issued THEN Append(sentMessages, req) ELSE sentMessages
  /\ pc' = "done"
  /\ UNCHANGED <<now>>
  /\ UNCHANGED <<concVars, calcVars, fetchVars, autoVars, callVars, scanVars, logVars>>

\* POST /api/telegram/send arrives with any signal and analysis in its body.
PostTelegramSend ==
  /\ pc \in {"idle", "done"}
  /\ Len(sentMessages) < MaxSentMessages
  /\ \E confidence \in NotifyConfidences, analysis \in NotifyAnalyses :
       request' = [via |-> "route", confidence |-> confidence, analysis |-> analysis]
  /\ response' = << >>
  /\ pc' = "route"
  /\ UNCHANGED <<now, sentMessages>>
  /\ UNCHANGED <<concVars, calcVars, fetchVars, autoVars, callVars, scanVars, logVars>>

NotifyNext == SendToTelegram \/ PostTelegramSend \/ RouteTelegramSend

NotifySpec == NotifyInit /\ [][NotifyNext]_vars

\* The request is blocked in the claim's sense: confidence <= 0, or a
\* reasoning string with BLOCKED, SKIP or the no-entry sign.
IsBlockedRequest(req) ==
  \/ req.confidence <= 0
  \/ /\ req.analysis.present
     /\ SomeIn(req.analysis.reasoning,
               TagsWithBLOCKED \cup TagsWithSKIP \cup TagsWithNoEntry)

-----------------------------------------------------------------------------
(* Trade log under logTrade and updateTradeResult calls *)

\* A run fills the log with one kind of trade, at one time, until this many
\* entries are missing to its capacity; from there on every call is taken.
MaxBelowCap == 1
\* Insertions of a run beyond the capacity.
MaxOverflow == 2
\* Entries a run may have updated at one time.
MaxUpdates == 2

\* The clock at the start of a run, and ten minutes later.
LogStart == 5 * 3600
LogLater == LogStart + 10 * 60

\* Entry prices of the logged trades.
LogEntries == {BasePrice, BasePrice + PipValue}

\* The argument of a logTrade call for a trade entered at the given price.
LogData(entry) ==
  [pair |-> "GBP/USD", signalType |-> "CALL", entry |-> entry,
   stopLoss |-> entry - 15 * PipValue, takeProfit |-> entry + 30 * PipValue,
   confidence |-> 70, rsi |-> 50, stochastic |-> <<50, 50>>,
   candlePattern |-> "none", session |-> "MORNING", pairAccuracy |-> "HIGH"]

\* The log is about to reach its capacity.
NearCap == logged >= TRADE_LOG_CAP - MaxBelowCap

LogInit ==
  /\ call = [caller |-> "none", pair |-> "GBP/USD", maxRescans |-> 0,
             minConfidenceThreshold |-> DEFAULT_MIN_CONFIDENCE]
  /\ pc = "log"
  /\ now = LogStart
  /\ tz = 0
  /\ rescanAttempt = 0
  /\ bestSignal = << >>
  /\ highestConfidence = 0
  /\ candles = << >>
  /\ returned = << >>
  /\ exit = "none"
  /\ passes = << >>
  /\ fetches = 0
  /\ delays = 0
  /\ logged = 0
  /\ tradeHistory = << >>
  /\ telegramConfigured = TRUE
  /\ request = NoRequest
  /\ response = << >>
  /\ sentMessages = << >>
  /\ FetchIdle
  /\ AutoIdle
  /\ SideIdle

\* logTrade(tradeData) at the current clock.
LogTrade ==
  /\ pc = "log"
  /\ logged < TRADE_LOG_CAP + MaxOverflow
  /\ \E entry \in (IF NearCap THEN LogEntries ELSE {BasePrice}) :
       tradeHistory' = logTrade(tradeHistory, LogData(entry), now, logged + 1)
  /\ logged' = logged + 1
  /\ UNCHANGED lastUpdate
  /\ UNCHANGED <<pc, now>>
  /\ UNCHANGED <<concVars, calcVars, fetchVars, autoVars, callVars, scanVars, notifyVars>>

\* Entries of the log that have a result.
Updated == {i \in 1..Len(tradeHistory) : tradeHistory[i].result # "PENDING"}

\* updateTradeResult(entryPrice, exitPrice, exitTime, result), the exit at the
\* current clock.
UpdateTradeResult ==
  /\ pc = "log"
  /\ Cardinality(Updated) < MaxUpdates
  /\ \E entryPrice \in LogEntries, result \in {"WIN", "LOSS"} :
       /\ tradeHistory' = updateTradeResult(tradeHistory, entryPrice,
                                            entryPrice + 30 * PipValue, now, result)
       /\ lastUpdate' = <<[entryPrice |-> entryPrice,
                           exitPrice |-> entryPrice + 30 * PipValue,
                           exitTime |-> now, result |-> result]>>
  /\ UNCHANGED <<pc, now, logged>>
  /\ UNCHANGED <<concVars, calcVars, fetchVars, autoVars, callVars, scanVars, notifyVars>>

\* Ten minutes pass.
LogTick ==
  /\ pc = "log"
  /\ NearCap
  /\ now < LogLater
  /\ now' = LogLater
  /\ UNCHANGED <<pc>>
  /\ UNCHANGED <<concVars, calcVars, fetchVars, autoVars, callVars, scanVars, logVars, notifyVars>>

LogNext == LogTrade \/ UpdateTradeResult \/ LogTick

LogSpec == LogInit /\ [][LogNext]_vars

\* C10: the log holds at most 500 entries, and they are the most recent
\* insertions in insertion order: the entry at position i is insertion number
\* logged - Len + i, so that past 500 insertions the length stays 500 and the
\* oldest entry is the one that left.
C10_LogIsLast500Insertions ==
  /\ Len(tradeHistory) <= 500
  /\ Len(tradeHistory) = Min(logged, 500)
  /\ \A i \in 1..Len(tradeHistory) :
       tradeHistory[i].seqNo = logged - Len(tradeHistory) + i

\* More than 500 insertions, with an updated entry in the log.
C10_Witness ==
  /\ logged > 500
  /\ Len(tradeHistory) = 500
  /\ tradeHistory[1].seqNo = logged - 499
  /\ Updated # {}

\* The positions in the log after a step of the entry at position i before it
\* (an entry keeps its insertion number and moves down by at most one place).
SameEntry(i) ==
  {j \in {i - 1, i} \cap (1..Len(tradeHistory')) :
     tradeHistory'[j].seqNo = tradeHistory[i].seqNo}

\* C11: an entry's result is set once.  Every entry enters the log PENDING
\* without exit; an entry that is WIN or LOSS is never changed again (result,
\* exitPrice, exitTime), and a PENDING entry changes only by getting a result
\* together with its exit.
C11_ResultSetOnce ==
  [][/\ \A j \in 1..Len(tradeHistory') :
          tradeHistory'[j].seqNo > logged =>
            /\ tradeHistory'[j].result = "PENDING"
            /\ tradeHistory'[j].exitPrice = 0 /\ tradeHistory'[j].exitTime = 0
     /\ \A i \in 1..Len(tradeHistory) : \A j \in SameEntry(i) :
          IF tradeHistory[i].result # "PENDING"
          THEN tradeHistory'[j] = tradeHistory[i]
          ELSE \/ tradeHistory'[j] = tradeHistory[i]
               \/ /\ tradeHistory'[j].result \in {"WIN", "LOSS"}
                  /\ tradeHistory'[j] =
                       [tradeHistory[i] EXCEPT !.result = tradeHistory'[j].result,
                                               !.exitPrice = tradeHistory'[j].exitPrice,
                                               !.exitTime = tradeHistory'[j].exitTime]]_vars

\* Two entries of the same entry price, logged at the same time, were settled
\* at the same time with different results: the second settlement passed
\* over the first entry, which had its result.
C11_Witness ==
  \E i, j \in Updated :
    /\ i < j
    /\ tradeHistory[i].entry = tradeHistory[j].entry
    /\ tradeHistory[i].timestamp = tradeHistory[j].timestamp
    /\ tradeHistory[i].exitTime = tradeHistory[j].exitTime
    /\ tradeHistory[i].result = "WIN" /\ tradeHistory[j].result = "LOSS"

\* The entries of log h the call u is about: PENDING, entered at u.entryPrice,
\* logged less than 10 minutes before or after u.exitTime.
Candidates(h, u) ==
  {i \in 1..Len(h) :
     /\ h[i].result = "PENDING"
     /\ h[i].entry = u.entryPrice
     /\ h[i].timestamp - u.exitTime < 600
     /\ u.exitTime - h[i].timestamp < 600}

\* Log h2 is log h with the oldest candidate of call u settled and nothing
\* else changed, or h itself when there is no candidate.
Settles(h, h2, u) ==
  IF Candidates(h, u) = {} THEN h2 = h
  ELSE \E i \in Candidates(h, u) :
         /\ \A j \in Candidates(h, u) : i <= j
         /\ Len(h2) = Len(h)
         /\ \A j \in 1..Len(h) : j # i => h2[j] = h[j]
         /\ h2[i] = [h[i] EXCEPT !.result = u.result, !.exitPrice = u.exitPrice,
                                 !.exitTime = u.exitTime]

-----------------------------------------------------------------------------
(* Data layer: fetchWithRetry, getForexQuote, getForexCandles *)

\* CACHE_DURATION = 60000 ms, in seconds.
CACHE_DURATION == 60

\* fetchWithRetry(url, retries = 3)
RETRIES == 3

\* The own keys of FOREX_PAIR_MAP.
FOREX_PAIR_KEYS ==
  {"EUR/USD", "GBP/USD", "USD/JPY", "USD/CHF", "AUD/USD", "USD/CAD", "NZD/USD",
   "EUR/GBP", "EUR/JPY", "GBP/JPY", "AUD/JPY", "EUR/AUD"}

\* Names every object literal inherits from Object.prototype.
ObjectPrototypeKeys ==
  {"constructor", "toString", "toLocaleString", "valueOf", "hasOwnProperty",
   "isPrototypeOf", "propertyIsEnumerable", "__proto__"}

\* FOREX_PAIR_MAP[pair]: the entry of an own key, the inherited member for a
\* name of Object.prototype, undefined otherwise.
PairInfo(pair) ==
  IF pair \in FOREX_PAIR_KEYS THEN "entry"
  ELSE IF pair \in ObjectPrototypeKeys THEN "inherited"
  ELSE "undefined"

\* map.set(key, value)
MapSet(map, key, value) ==
  [k \in DOMAIN map \cup {key} |-> IF k = key THEN value ELSE map[k]]

\* cached && Date.now() - cached.timestamp < CACHE_DURATION
CacheHit(cache, key, time) ==
  key \in DOMAIN cache /\ time - cache[key].timestamp < CACHE_DURATION

\* The key a call reads its cache with: pair for quotes, `${pair}-${interval}`
\* for candles.
ReadKey(fn, pair, interval) ==
  IF fn = "quote" THEN pair ELSE pair \o "-" \o interval

\* The key a call writes its cache with: pair for quotes, for candles
\* enforcedCacheKey = `${pair}_${enforcedInterval}` with enforcedInterval "15min".
WriteKey(fn, pair) ==
  IF fn = "quote" THEN pair ELSE pair \o "_" \o "15min"

\* The interval in the URL of a provider request: none for a quote
\* (CURRENCY_EXCHANGE_RATE), for candles enforcedInterval = "15min",
\* whatever interval the call was given.
RequestInterval(fn, interval) == IF fn = "quote" THEN "none" ELSE "15min"

\* The intervals generateSignalAnalysis passes to its three getForexCandles
\* calls of a pass, for the interval of its timeframe.
PassIntervals(interval) == <<interval, "15min", "60min">>

\* Data parsed from the provider's response / generateRealisticQuote,
\* generateRealisticCandles, made at the given time.
ProviderData(fn, pair, time) == [src |-> "provider", fn |-> fn, pair |-> pair, at |-> time]
SyntheticData(fn, pair, time) == [src |-> "synthetic", fn |-> fn, pair |-> pair, at |-> time]

Returns(data) == <<[kind |-> "data", data |-> data, message |-> ""]>>
Throws(message) == <<[kind |-> "error", data |-> << >>, message |-> message]>>

\* What one iteration of fetchWithRetry's loop ends in, for the outcome of
\* its request: "return" the parsed response, "throw" the error, or "wait"
\* and go round again.
\* Variant: the error is thrown after the second failure.
fetchWithRetryStep_TwoAttempts(i, ok) ==
  IF ok THEN "return" ELSE IF i = RETRIES - 2 THEN "throw" ELSE "wait"

fetchWithRetryStep(i, ok) ==
  IF ok THEN "return" ELSE IF i = RETRIES - 1 THEN "throw" ELSE "wait"

\* setTimeout(resolve, 1000 * (i + 1)), in seconds.
Backoff(i) == i + 1

\* Variant: the error of fetchWithRetry leaves the call.
OnProviderError_Rethrow(f, time) == Throws("HTTP error")

\* catch (error) { log(...) } and then return generateRealistic...(pair)
OnProviderError(f, time) == Returns(SyntheticData(f.fn, f.pair, time))

\* Calls of a run.
MaxFetchCalls == 2
\* Times the clock is moved between the calls of a run.
MaxFetchTicks == 2

\* Pairs asked for: two of the table, one unknown name, one name that
\* Object.prototype has.
FetchPairs == {"GBP/USD", "EUR/USD", "XAU/USD", "constructor"}
FetchIntervals == {"15min", "60min"}

\* Outcomes of one request of fetchWithRetry: a response with the expected
\* payload, an OK response without it, a non-OK status, a rejected fetch.
FetchOutcomes == {"payload", "no_payload", "http_error", "network_error"}

FetchInit ==
  /\ call = [caller |-> "none", pair |-> "GBP/USD", maxRescans |-> 0,
             minConfidenceThreshold |-> DEFAULT_MIN_CONFIDENCE]
  /\ pc = "data"
  /\ now = 5 * 3600
  /\ tz = 0
  /\ rescanAttempt = 0
  /\ bestSignal = << >>
  /\ highestConfidence = 0
  /\ candles = << >>
  /\ returned = << >>
  /\ exit = "none"
  /\ passes = << >>
  /\ fetches = 0
  /\ delays = 0
  /\ logged = 0
  /\ tradeHistory = << >>
  /\ telegramConfigured = TRUE
  /\ request = NoRequest
  /\ response = << >>
  /\ sentMessages = << >>
  /\ fetch \in {[NoFetch EXCEPT !.apiKey = k] : k \in BOOLEAN}
  /\ priceCache = EmptyMap
  /\ candleCache = EmptyMap
  /\ stored = EmptyMap
  /\ AutoIdle
  /\ SideIdle

FetchFrame ==
  UNCHANGED <<concVars, calcVars, autoVars, callVars, scanVars, logVars, notifyVars, pc>>

\* getForexQuote(pair, apiKey) / getForexCandles(pair, interval, apiKey) up
\* to its first await: the cache, the pair table, the API key.
GetForex ==
  /\ fetch.pc \in {"idle", "done"}
  /\ fetch.calls < MaxFetchCalls
  /\ \E fn \in {"quote", "candles"}, pair \in FetchPairs,
        interval \in FetchIntervals :
       /\ fn = "quote" => interval = "15min"
       /\ LET cache == IF fn = "quote" THEN priceCache ELSE candleCache
              key == ReadKey(fn, pair, interval)
              fresh == CacheHit(stored, <<fn, pair, interval>>, now)
              f == [fetch EXCEPT !.fn = fn, !.pair = pair, !.interval = interval,
                                 !.i = 0, !.outcomes = << >>, !.waits = << >>,
                                 !.thrown = FALSE, !.startedAt = now,
                                 !.before = <<priceCache, candleCache>>,
                                 !.calls = @ + 1, !.fresh = fresh, !.asked = << >>,
                                 !.freshData =
                                   IF fresh THEN stored[<<fn, pair, interval>>].data
                                   ELSE << >>]
          IN fetch' =
               IF CacheHit(cache, key, now)
               THEN [f EXCEPT !.pc = "done", !.result = Returns(cache[key].data)]
               ELSE IF PairInfo(pair) = "undefined"
               THEN [f EXCEPT !.pc = "done",
                              !.result = Throws("Unknown pair: " \o pair)]
               ELSE IF f.apiKey
               THEN [f EXCEPT !.pc = "attempt", !.result = << >>,
                              !.asked = <<RequestInterval(fn, interval)>>]
               ELSE [f EXCEPT !.pc = "done",
                              !.result = Returns(SyntheticData(fn, pair, now))]
  /\ UNCHANGED <<now, priceCache, candleCache, stored>>
  /\ FetchFrame

\* One iteration of fetchWithRetry, and what the caller does when it returns
\* or throws: with the payload, the parsed data is cached and returned;
\* without it, and on the error, synthetic data is returned.
FetchAttempt ==
  /\ fetch.pc = "attempt"
  /\ \E outcome \in FetchOutcomes :
       LET ok == outcome \in {"payload", "no_payload"}
           step == fetchWithRetryStep(fetch.i, ok)
           f == [fetch EXCEPT !.outcomes = Append(@, IF ok THEN outcome ELSE "failed")]
           data == ProviderData(fetch.fn, fetch.pair, now)
           entry == [data |-> data, timestamp |-> now]
       IN IF step = "return" /\ outcome = "payload"
          THEN /\ fetch' = [f EXCEPT !.pc = "done", !.result = Returns(data)]
               /\ IF fetch.fn = "quote"
                  THEN /\ priceCache' = MapSet(priceCache, WriteKey(fetch.fn, fetch.pair), entry)
                       /\ UNCHANGED candleCache
                  ELSE /\ candleCache' = MapSet(candleCache, WriteKey(fetch.fn, fetch.pair), entry)
                       /\ UNCHANGED priceCache
               /\ stored' = MapSet(stored, <<fetch.fn, fetch.pair, fetch.interval>>, entry)
          ELSE /\ fetch' =
                    IF step = "return"
                    THEN [f EXCEPT !.pc = "done",
                                   !.result = Returns(SyntheticData(f.fn, f.pair, now))]
                    ELSE IF step = "throw"
                    THEN [f EXCEPT !.pc = "done", !.thrown = TRUE,
                                   !.result = OnProviderError(f, now)]
                    ELSE [f EXCEPT !.pc = "wait"]
               /\ UNCHANGED <<priceCache, candleCache, stored>>
  /\ UNCHANGED now
  /\ FetchFrame

\* await new Promise(resolve => setTimeout(resolve, 1000 * (i + 1))), i++
FetchWait ==
  /\ fetch.pc = "wait"
  /\ now' = now + Backoff(fetch.i)
  /\ fetch' = [fetch EXCEPT !.pc = "attempt", !.i = @ + 1,
                            !.waits = Append(@, Backoff(fetch.i))]
  /\ UNCHANGED <<priceCache, candleCache, stored>>
  /\ FetchFrame

\* Half a minute or a minute passes between two calls.
FetchTick ==
  /\ fetch.pc \in {"idle", "done"}
  /\ fetch.ticks < MaxFetchTicks
  /\ \E d \in {CACHE_DURATION \div 2, CACHE_DURATION} : now' = now + d
  /\ fetch' = [fetch EXCEPT !.ticks = @ + 1]
  /\ UNCHANGED <<priceCache, candleCache, stored>>
  /\ FetchFrame

FetchNext == GetForex \/ FetchAttempt \/ FetchWait \/ FetchTick

FetchSpec == FetchInit /\ [][FetchNext]_vars

\* C16 (as claimed): a call for a pair outside the 12-pair table ends with the
\* error "Unknown pair: <pair>" without any provider request, whatever the
\* caches hold.
C16_UnknownPairFailsFast ==
  (fetch.pc # "idle" /\ fetch.pair \notin FOREX_PAIR_KEYS) =>
    /\ fetch.pc = "done"
    /\ fetch.result = Throws("Unknown pair: " \o fetch.pair)
    /\ fetch.outcomes = << >>

\* The provider failed the call: fetchWithRetry threw after its last attempt,
\* or its response came without the expected payload.
ProviderFailed ==
  \/ fetch.thrown
  \/ fetch.outcomes # << >> /\ fetch.outcomes[Len(fetch.outcomes)] = "no_payload"

\* C17: a call for a pair of the table never ends with an error; when the
\* provider failed, it returns synthetic data and both caches are as they
\* were when the call began.
C17_ProviderFailureFallsBack ==
  (fetch.pc = "done" /\ fetch.pair \in FOREX_PAIR_KEYS) =>
    /\ fetch.result[1].kind = "data"
    /\ ProviderFailed =>
         /\ fetch.result[1].data.src = "synthetic"
         /\ fetch.result[1].data.pair = fetch.pair
         /\ <<priceCache, candleCache>> = fetch.before

\* A candle call for a pair of the table, made with both caches filled, whose
\* three requests failed.
C17_Witness ==
  /\ fetch.pc = "done"
  /\ fetch.fn = "candles"
  /\ fetch.pair \in FOREX_PAIR_KEYS
  /\ fetch.thrown
  /\ Len(fetch.outcomes) = RETRIES
  /\ fetch.result[1].data.src = "synthetic"
  /\ DOMAIN candleCache # {}

\* C18: fetchWithRetry makes at most 3 requests; a request follows only
\* failed ones, so the first success ends it; the k-th wait is k seconds and
\* is taken after the k-th failure when that is not the 3rd; the error is
\* thrown only when 3 requests have failed, and then without a further wait.
\* The clock has moved by the waits.
C18_ThreeAttemptsLinearBackoff ==
  LET n == Len(fetch.outcomes)
      w == Len(fetch.waits)
      failed == {k \in 1..n : fetch.outcomes[k] = "failed"}
  IN /\ n <= 3
     /\ \A k \in 1..(n - 1) : k \in failed
     /\ w <= 2
     /\ \A k \in 1..w : fetch.waits[k] = k
     /\ fetch.pc = "attempt" => w = n /\ failed = 1..n
     /\ fetch.pc = "wait" => w = n - 1 /\ failed = 1..n /\ n < 3
     /\ fetch.pc = "done" => w = (IF n = 0 THEN 0 ELSE n - 1)
     /\ fetch.thrown <=> (n = 3 /\ failed = 1..3)
     /\ fetch.pc \in {"attempt", "wait"} =>
          now - fetch.startedAt = (w * (w + 1)) \div 2
     /\ (fetch.pc = "done" /\ fetch.thrown) =>
          fetch.waits = <<1, 2>>

\* Three failed requests with waits of 1 s and 2 s between them, and the
\* error thrown 3 s after the start.
C18_Witness ==
  /\ fetch.pc = "done"
  /\ fetch.thrown
  /\ fetch.outcomes = <<"failed", "failed", "failed">>
  /\ fetch.waits = <<1, 2>>
  /\ now = fetch.startedAt + 3

\* C19 (as claimed): a getForexCandles call made less than 60 s after the
\* provider's candles were stored for its pair and interval returns those
\* candles without a provider request; a later call asks the provider again.
C19_CandleCacheReadThrough ==
  (fetch.pc # "idle" /\ fetch.fn = "candles") =>
    IF fetch.fresh
    THEN /\ fetch.pc = "done"
         /\ fetch.result = Returns(fetch.freshData)
         /\ fetch.outcomes = << >>
    ELSE (fetch.pc = "done" /\ fetch.apiKey /\ fetch.pair \in FOREX_PAIR_KEYS) =>
           fetch.outcomes # << >>

\* C26 (as claimed): the three series of a pass are asked for at the base
\* interval, 15min and 60min, and a getForexCandles call asks the provider
\* for the interval it was called with, so that the H1 series is 60-minute
\* data.
C26_ProviderAskedForCallInterval ==
  (fetch.fn = "candles" /\ fetch.asked # << >>) =>
    /\ \E base \in FetchIntervals, k \in 1..3 : fetch.interval = PassIntervals(base)[k]
    /\ fetch.asked[1] = fetch.interval

-----------------------------------------------------------------------------
(* Auto-scanner: runAutoScan, its timer and the /api/autoscan routes *)

\* AUTO_SCAN_INTERVAL_MS = 6 * 60 * 1000, in seconds.
AUTO_SCAN_INTERVAL == 6 * 60

\* Scans started in a run.
MaxScans == 2
\* Times the clock is moved by the scan interval in a run.
MaxScanTicks == 1
\* Pairs of a scan (FOREX_PAIRS has 12).
ScanWidth == 2

\* Confidences generateSignalAnalysis(pair, "M15", apiKey, 5, 75) returns:
\* blocked, accepted below 85, accepted from 85.
ScanConfidences == {0, 80, 90}

\* The synchronous head of runAutoScan: TRUE when the scan goes ahead.
\* if (!autoScanEnabled) return; if (now - lastAutoScanTime < AUTO_SCAN_INTERVAL_MS) return;
runAutoScanStarts(enabled, last, time) ==
  enabled /\ ~(time - last < AUTO_SCAN_INTERVAL)

\* A scan that has passed the head of runAutoScan and awaits Promise.all.
NewScan == [pc |-> "scanning", queue |-> << >>, enabledAtStart |-> autoScanEnabled]

ScannerInit ==
  /\ call = [caller |-> "none", pair |-> "GBP/USD", maxRescans |-> 0,
             minConfidenceThreshold |-> DEFAULT_MIN_CONFIDENCE]
  /\ pc = "scanner"
  /\ now = 5 * 3600
  /\ tz = 0
  /\ rescanAttempt = 0
  /\ bestSignal = << >>
  /\ highestConfidence = 0
  /\ candles = << >>
  /\ returned = << >>
  /\ exit = "none"
  /\ passes = << >>
  /\ fetches = 0
  /\ delays = 0
  /\ logged = 0
  /\ tradeHistory = << >>
  /\ telegramConfigured \in BOOLEAN
  /\ request = NoRequest
  /\ response = << >>
  /\ sentMessages = << >>
  /\ FetchIdle
  /\ AutoIdle
  /\ SideIdle

ScannerFrame ==
  UNCHANGED <<concVars, calcVars, fetchVars, callVars, scanVars, logVars, notifyVars, pc>>

\* setInterval(runAutoScan, ...) / setTimeout(runAutoScan, 30000) fires.
TimerFires ==
  /\ pc = "scanner"
  /\ Len(scans) < MaxScans
  /\ IF runAutoScanStarts(autoScanEnabled, lastAutoScanTime, now)
     THEN /\ lastAutoScanTime' = now
          /\ scans' = Append(scans, NewScan)
     ELSE UNCHANGED <<lastAutoScanTime, scans>>
  /\ UNCHANGED <<now, autoScanEnabled, alerts>>
  /\ ScannerFrame

\* POST /api/autoscan/run: lastAutoScanTime = 0, then runAutoScan().
PostAutoscanRun ==
  /\ pc = "scanner"
  /\ Len(scans) < MaxScans
  /\ IF runAutoScanStarts(autoScanEnabled, 0, now)
     THEN /\ lastAutoScanTime' = now
          /\ scans' = Append(scans, NewScan)
     ELSE /\ lastAutoScanTime' = 0
          /\ UNCHANGED scans
  /\ UNCHANGED <<now, autoScanEnabled, alerts>>
  /\ ScannerFrame

\* POST /api/autoscan/toggle
PostAutoscanToggle ==
  /\ pc = "scanner"
  /\ autoScanEnabled' = ~autoScanEnabled
  /\ UNCHANGED <<now, lastAutoScanTime, scans, alerts>>
  /\ ScannerFrame

\* Promise.all resolves: highProbSignals = signals.filter(s => s.confidence >= 85).
ScanResolves ==
  /\ pc = "scanner"
  /\ \E k \in 1..Len(scans) :
       /\ scans[k].pc = "scanning"
       /\ \E signals \in [1..ScanWidth -> ScanConfidences] :
            LET highProbSignals == SelectSeq(signals, LAMBDA c : c >= AUTO_SCAN_SEND_MIN)
            IN scans' = [scans EXCEPT ![k].queue = highProbSignals,
                                      ![k].pc = IF highProbSignals = << >> THEN "done"
                                                ELSE "sending"]
  /\ UNCHANGED <<now, autoScanEnabled, lastAutoScanTime, alerts>>
  /\ ScannerFrame

\* One round of for (const signal of highProbSignals) await sendToTelegram(...).
SendAlert ==
  /\ pc = "scanner"
  /\ \E k \in 1..Len(scans) :
       /\ scans[k].pc = "sending"
       /\ LET c == Head(scans[k].queue)
              rest == Tail(scans[k].queue)
          IN /\ alerts' =
                  IF sendToTelegramIssues(telegramConfigured, c,
                                          [present |-> TRUE, reasoning |-> <<"FINAL_CONFLUENCE">>])
                  THEN Append(alerts, [confidence |-> c, scan |-> k,
                                       enabled |-> autoScanEnabled])
                  ELSE alerts
             /\ scans' = [scans EXCEPT ![k].queue = rest,
                                       ![k].pc = IF rest = << >> THEN "done" ELSE "sending"]
  /\ UNCHANGED <<now, autoScanEnabled, lastAutoScanTime>>
  /\ ScannerFrame

\* The scan interval passes.
ScanTick ==
  /\ pc = "scanner"
  /\ now < 5 * 3600 + MaxScanTicks * AUTO_SCAN_INTERVAL
  /\ now' = now + AUTO_SCAN_INTERVAL
  /\ UNCHANGED autoVars
  /\ ScannerFrame

ScannerNext ==
  \/ TimerFires \/ PostAutoscanRun \/ PostAutoscanToggle
  \/ ScanResolves \/ SendAlert \/ ScanTick

ScannerSpec == ScannerInit /\ [][ScannerNext]_vars

\* C20 (as claimed): while the auto-scanner is disabled no scan starts, from
\* the timer or from POST /api/autoscan/run, and no alert is sent, not even by
\* a scan that was running when it was disabled.
C20_DisabledScannerIsSilent ==
  /\ \A k \in 1..Len(scans) : scans[k].enabledAtStart
  /\ \A i \in 1..Len(alerts) : alerts[i].enabled

-----------------------------------------------------------------------------
(* Indicator functions on candle sequences: calculateSMA, calculateEMA,    *)
(* calculateRSI, calculateATR, calculateSupertrend.  A JavaScript value is  *)
(* a number, kept as the fraction num / den, undefined, or the TypeError    *)
(* thrown by reading a property of undefined.                              *)
(***************************************************************************)

JsNumber(n, d) == [kind |-> "number", num |-> n, den |-> d]
JsUndefined == [kind |-> "undefined", num |-> 0, den |-> 1]
JsTypeError == [kind |-> "TypeError", num |-> 0, den |-> 1]

\* candles.map(c => c.close)
Closes(cs) == [i \in 1..Len(cs) |-> cs[i].close]

RECURSIVE SumSeq(_)
\* reduce((a, b) => a + b, 0)
SumSeq(xs) == IF xs = << >> THEN 0 ELSE Head(xs) + SumSeq(Tail(xs))

\* xs.slice(-n) for 0 < n <= xs.length
LastN(xs, n) == SubSeq(xs, Len(xs) - n + 1, Len(xs))

\* prices[prices.length - 1]
LastPrice(prices) ==
  IF prices = << >> THEN JsUndefined ELSE JsNumber(prices[Len(prices)], 1)

calculateSMA(prices, period) ==
  IF Len(prices) < period THEN LastPrice(prices)
  ELSE JsNumber(SumSeq(LastN(prices, period)), period)

RECURSIVE EmaLoop(_, _, _, _)
\* for (i = period; i < prices.length; i++) ema = prices[i] * k + ema * (1 - k)
\* with k = 2 / (period + 1); i is the 1-based index of the next price.
EmaLoop(prices, period, i, ema) ==
  IF i > Len(prices) THEN ema
  ELSE EmaLoop(prices, period, i + 1,
               JsNumber(2 * prices[i] * ema.den + ema.num * (period - 1),
                        ema.den * (period + 1)))

calculateEMA(prices, period) ==
  IF Len(prices) < period THEN LastPrice(prices)
  ELSE EmaLoop(prices, period, period + 1,
               JsNumber(SumSeq(SubSeq(prices, 1, period)), period))

\* 100 - 100 / (1 + avgGain / avgLoss) = 100 * gains / (gains + losses)
calculateRSI(prices, period) ==
  IF Len(prices) < period + 1 THEN JsNumber(50, 1)
  ELSE LET changes == [i \in 1..period |->
                         prices[Len(prices) - period + i] - prices[Len(prices) - period + i - 1]]
           gains == SumSeq([i \in 1..period |-> IF changes[i] > 0 THEN changes[i] ELSE 0])
           losses == SumSeq([i \in 1..period |-> IF changes[i] > 0 THEN 0 ELSE -changes[i]])
       IN IF losses = 0 THEN JsNumber(100, 1)
          ELSE JsNumber(100 * gains, gains + losses)

\* Math.max(high - low, |high - prevClose|, |low - prevClose|)
TrueRange(c, prev) ==
  Max(c.high - c.low, Max(Abs(c.high - prev.close), Abs(c.low - prev.close)))

calculateATR(cs, period) ==
  IF Len(cs) < period + 1
  THEN IF cs = << >> THEN JsTypeError
       ELSE JsNumber(cs[Len(cs)].high - cs[Len(cs)].low, 1)
  ELSE JsNumber(SumSeq(LastN([i \in 1..(Len(cs) - 1) |-> TrueRange(cs[i + 1], cs[i])],
                             period)),
                period)

\* calculateSupertrend(candles, period, multiplier): the direction, or the
\* TypeError of candles[candles.length - 1].close on an empty array.
calculateSupertrend(cs, period, multiplier) ==
  IF Len(cs) < period + 1
  THEN IF cs = << >> THEN "TypeError" ELSE "NEUTRAL"
  ELSE LET atr == calculateATR(cs, period)
           cur == cs[Len(cs)]
           prev == cs[Len(cs) - 1]
           \* 2 * atr.den * (close - hl2) against +- 2 * multiplier * atr.num
           lead == atr.den * (2 * cur.close - (cur.high + cur.low))
           band == 2 * multiplier * atr.num
       IN IF lead > band THEN "BULLISH"
          ELSE IF lead < -band THEN "BEARISH"
          ELSE IF 2 * prev.close > cur.high + cur.low THEN "BULLISH" ELSE "BEARISH"

\* Longest candle sequence given to an indicator function.
MaxSeriesLen == 3

\* Candles, in points: a rise, a higher rise, a fall.
IndicatorCandles ==
  {[open |-> BasePrice, high |-> BasePrice + 200, low |-> BasePrice - 100,
    close |-> BasePrice + 100],
   [open |-> BasePrice + 300, high |-> BasePrice + 900, low |-> BasePrice + 200,
    close |-> BasePrice + 800],
   [open |-> BasePrice, high |-> BasePrice + 100, low |-> BasePrice - 700,
    close |-> BasePrice - 600]}

IndicatorInputs ==
  UNION {[1..n -> IndicatorCandles] : n \in 0..MaxSeriesLen}

\* The periods analyzeTechnicals calls each function with, and the period 2,
\* which the sequences above can reach.
IndicatorPeriods(fn) ==
  {2} \cup (IF fn = "SMA" THEN {20, 50, 200}
            ELSE IF fn = "EMA" THEN {12, 26}
            ELSE IF fn = "Supertrend" THEN {10}
            ELSE {14})

IndicatorInit ==
  /\ call = [caller |-> "none", pair |-> "GBP/USD", maxRescans |-> 0,
             minConfidenceThreshold |-> DEFAULT_MIN_CONFIDENCE]
  /\ pc = "calc"
  /\ now = 5 * 3600
  /\ tz = 0
  /\ rescanAttempt = 0
  /\ bestSignal = << >>
  /\ highestConfidence = 0
  /\ candles = << >>
  /\ returned = << >>
  /\ exit = "none"
  /\ passes = << >>
  /\ fetches = 0
  /\ delays = 0
  /\ logged = 0
  /\ tradeHistory = << >>
  /\ telegramConfigured = TRUE
  /\ request = NoRequest
  /\ response = << >>
  /\ sentMessages = << >>
  /\ FetchIdle
  /\ AutoIdle
  /\ lastUpdate = << >>
  /\ running = << >>
  /\ calc \in {<<[fn |-> fn, candles |-> cs, period |-> period, done |-> FALSE,
                  result |-> JsUndefined, direction |-> ""]>> :
                 fn \in {"SMA", "EMA", "RSI", "ATR", "Supertrend"},
                 cs \in IndicatorInputs,
                 period \in {2, 10, 12, 14, 20, 26, 50, 200}}
  /\ calc[1].period \in IndicatorPeriods(calc[1].fn)

IndicatorFrame ==
  UNCHANGED <<concVars, fetchVars, autoVars, callVars, scanVars, logVars, notifyVars,
              pc, now>>

\* The call under way is of function fn.
Computing(fn) == calc # << >> /\ ~calc[1].done /\ calc[1].fn = fn

CalculateSMA ==
  /\ Computing("SMA")
  /\ calc' = <<[calc[1] EXCEPT !.done = TRUE,
                               !.result = calculateSMA(Closes(calc[1].candles), calc[1].period)]>>
  /\ IndicatorFrame

CalculateEMA ==
  /\ Computing("EMA")
  /\ calc' = <<[calc[1] EXCEPT !.done = TRUE,
                               !.result = calculateEMA(Closes(calc[1].candles), calc[1].period)]>>
  /\ IndicatorFrame

CalculateRSI ==
  /\ Computing("RSI")
  /\ calc' = <<[calc[1] EXCEPT !.done = TRUE,
                               !.result = calculateRSI(Closes(calc[1].candles), calc[1].period)]>>
  /\ IndicatorFrame

CalculateATR ==
  /\ Computing("ATR")
  /\ calc' = <<[calc[1] EXCEPT !.done = TRUE,
                               !.result = calculateATR(calc[1].candles, calc[1].period)]>>
  /\ IndicatorFrame

CalculateSupertrend ==
  /\ Computing("Supertrend")
  /\ calc' = <<[calc[1] EXCEPT !.done = TRUE,
                               !.direction = calculateSupertrend(calc[1].candles, calc[1].period, 3)]>>
  /\ IndicatorFrame

IndicatorNext ==
  \/ CalculateSMA
  \/ CalculateEMA
  \/ CalculateRSI
  \/ CalculateATR
  \/ CalculateSupertrend

IndicatorSpec == IndicatorInit /\ [][IndicatorNext]_vars

\* The fallback the claim gives each function for a short input.
ShortFallback(fn, cs) ==
  IF fn = "RSI" THEN JsNumber(50, 1)
  ELSE IF fn = "ATR" THEN JsNumber(cs[Len(cs)].high - cs[Len(cs)].low, 1)
  ELSE JsNumber(cs[Len(cs)].close, 1)

\* C27 (as claimed): on every input shorter than the period, the empty
\* sequence included, calculateSMA, calculateEMA, calculateATR and
\* calculateRSI throw nothing and return a number: the most recent close for
\* SMA and EMA, the last candle's range for ATR, 50 for RSI.
C27_ShortInputFallback ==
  (calc # << >> /\ calc[1].done /\ calc[1].fn \in {"SMA", "EMA", "ATR", "RSI"}
   /\ Len(calc[1].candles) < calc[1].period) =>
    /\ calc[1].result.kind = "number"
    /\ (calc[1].fn = "RSI" \/ calc[1].candles # << >>) =>
         calc[1].result = ShortFallback(calc[1].fn, calc[1].candles)

-----------------------------------------------------------------------------
(* Concurrent generateSignalAnalysis calls.  POST /api/forex/scan starts    *)
(* one call per pair under Promise.all; a call runs without interruption   *)
(* between its await points: the three getForexCandles calls of a pass and *)
(* the 1 s timer before a rescan.  rescanAttempt, bestSignal and           *)
(* highestConfidence are locals of the call; tradeHistory and the clock    *)
(* are shared.                                                             *)
(***************************************************************************)

\* Seconds the clock advances while the calls run.
MaxConcTicks == 1

\* The pairs of the concurrent calls, and the pair of the entries the log
\* holds when they start.
ConcPairs == <<"GBP/USD", "EUR/USD">>
BacklogPair == "USD/CAD"

\* Entries in the log when the calls start: none, or one below the capacity.
ConcBacklog == {0, TRADE_LOG_CAP - 1}

BacklogEntry == [logTrade(<< >>, LogData(BasePrice), 0, 0)[1] EXCEPT !.pair = BacklogPair]

\* Candle series the fetches of the concurrent calls return.
ConcSeries == {Series(75, 85, macd, "UP") : macd \in {"BULL", "BEAR"}}

ConcStart == 9 * 3600 - 1

\* The locals of a call on entry; inputs is a history field: the candles of
\* each pass and the clock at its analysis.
NewCall(pair, maxRescans, minConfidenceThreshold) ==
  [pair |-> pair, maxRescans |-> maxRescans,
   minConfidenceThreshold |-> minConfidenceThreshold, pc |-> "loop",
   rescanAttempt |-> 0, bestSignal |-> << >>, highestConfidence |-> 0,
   candles |-> << >>, returned |-> << >>, resumeAt |-> 0, inputs |-> << >>]

ConcInit ==
  /\ call = [caller |-> "none", pair |-> "GBP/USD", maxRescans |-> 0,
             minConfidenceThreshold |-> DEFAULT_MIN_CONFIDENCE]
  /\ pc = "conc"
  /\ now = ConcStart
  /\ tz \in TzOffsets
  /\ rescanAttempt = 0
  /\ bestSignal = << >>
  /\ highestConfidence = 0
  /\ candles = << >>
  /\ returned = << >>
  /\ exit = "none"
  /\ passes = << >>
  /\ fetches = 0
  /\ delays = 0
  /\ logged = 0
  /\ \E n \in ConcBacklog : tradeHistory = [i \in 1..n |-> BacklogEntry]
  /\ telegramConfigured = TRUE
  /\ request = NoRequest
  /\ response = << >>
  /\ sentMessages = << >>
  /\ FetchIdle
  /\ AutoIdle
  /\ lastUpdate = << >>
  /\ calc = << >>
  /\ \E m \in 0..MaxRescansBound, th \in Thresholds :
       running = [i \in 1..Len(ConcPairs) |-> NewCall(ConcPairs[i], m, th)]

ConcFrame ==
  UNCHANGED <<calcVars, fetchVars, autoVars, callVars, scanVars, notifyVars, pc, lastUpdate>>

\* Variant: rescanAttempt is one variable of the module, shared by the calls.
ConcAttempt_Shared(i) ==
  running[1].rescanAttempt + running[Len(running)].rescanAttempt

\* let rescanAttempt = 0: a local of the call.
ConcAttempt(i) == running[i].rescanAttempt

\* while (rescanAttempt < maxRescans) { rescanAttempt++; await getForexCandles(pair, interval)
\* on entry, or when the 1 s timer of the previous pass has fired.
ConcFetchBase ==
  /\ pc = "conc"
  /\ \E i \in 1..Len(running) :
       /\ \/ running[i].pc = "loop"
          \/ running[i].pc = "delay" /\ now >= running[i].resumeAt
       /\ ConcAttempt(i) < running[i].maxRescans
       /\ running' = [running EXCEPT ![i].rescanAttempt = @ + 1, ![i].pc = "awaitBase"]
  /\ UNCHANGED <<now, logVars>>
  /\ ConcFrame

\* The loop condition fails on entry: the code after the loop.
ConcLoopExit ==
  /\ pc = "conc"
  /\ \E i \in 1..Len(running) :
       /\ running[i].pc = "loop"
       /\ ~(ConcAttempt(i) < running[i].maxRescans)
       /\ running' = [running EXCEPT
                        ![i].returned = <<AfterLoop(running[i], running[i].bestSignal,
                                                    running[i].highestConfidence)>>,
                        ![i].pc = "returned"]
  /\ UNCHANGED <<now, logVars>>
  /\ ConcFrame

\* The base candles arrive; await getForexCandles(pair, "15min").
ConcFetchM15 ==
  /\ pc = "conc"
  /\ \E i \in 1..Len(running) :
       /\ running[i].pc = "awaitBase"
       /\ \E t \in ConcSeries :
            running' = [running EXCEPT ![i].candles = <<t>>, ![i].pc = "awaitM15"]
  /\ UNCHANGED <<now, logVars>>
  /\ ConcFrame

\* The M15 candles arrive; await getForexCandles(pair, "60min").
ConcFetchH1 ==
  /\ pc = "conc"
  /\ \E i \in 1..Len(running) :
       /\ running[i].pc = "awaitM15"
       /\ \E dir \in Dirs :
            running' = [running EXCEPT ![i].candles = Append(@, dir), ![i].pc = "awaitH1"]
  /\ UNCHANGED <<now, logVars>>
  /\ ConcFrame

\* The outcome of a scored or blocked pass for the call c with the locals
\* best and highest: the locals after it and where the call goes.
PassOutcome(c, p, best, highest) ==
  IF p.blocked
  THEN [bestSignal |-> best, highestConfidence |-> highest, to |-> "returned",
        returned |-> <<p.signal>>]
  ELSE LET better == p.signal.confidence > highest
           best2 == IF better THEN <<p.signal>> ELSE best
           highest2 == IF better THEN p.signal.confidence ELSE highest
       IN IF Accepts(c, p.signal)
          THEN [bestSignal |-> best2, highestConfidence |-> highest2, to |-> "returned",
                returned |-> <<[best2[1] EXCEPT !.reasoning = @ \o <<"RESCAN_FOUND">>]>>]
          ELSE IF c.rescanAttempt < c.maxRescans
          THEN [bestSignal |-> best2, highestConfidence |-> highest2, to |-> "delay",
                returned |-> << >>]
          ELSE [bestSignal |-> best2, highestConfidence |-> highest2, to |-> "returned",
                returned |-> <<AfterLoop(c, best2, highest2)>>]

\* The H1 candles arrive: the rest of the pass runs to the next await or to
\* the return, logTrade included.
ConcAnalyse ==
  /\ pc = "conc"
  /\ \E i \in 1..Len(running), dir \in Dirs :
       /\ running[i].pc = "awaitH1"
       /\ \E p \in {AnalysePass(running[i].pair, running[i].candles[1],
                                running[i].candles[2], dir, utcHourOf(now), tz)} :
            /\ \E o \in {PassOutcome([running[i] EXCEPT !.rescanAttempt = ConcAttempt(i)], p,
                                       running[i].bestSignal,
                                       running[i].highestConfidence)} :
                 running' = [running EXCEPT
                               ![i].candles = Append(@, dir),
                               ![i].inputs = Append(@, [candles |-> Append(running[i].candles, dir),
                                                        time |-> now]),
                               ![i].bestSignal = o.bestSignal,
                               ![i].highestConfidence = o.highestConfidence,
                               ![i].returned = o.returned,
                               ![i].resumeAt = IF o.to = "delay" THEN now + 1 ELSE @,
                               ![i].pc = o.to]
            /\ IF p.blocked THEN UNCHANGED logVars ELSE LogPass(p.signal)
  /\ UNCHANGED now
  /\ ConcFrame

\* A second passes.
ConcTick ==
  /\ pc = "conc"
  /\ now < ConcStart + MaxConcTicks
  /\ \E i \in 1..Len(running) : running[i].pc # "returned"
  /\ now' = now + 1
  /\ UNCHANGED <<running, logVars>>
  /\ ConcFrame

ConcNext ==
  \/ ConcFetchBase \/ ConcLoopExit \/ ConcFetchM15 \/ ConcFetchH1
  \/ ConcAnalyse \/ ConcTick

ConcSpec == ConcInit /\ [][ConcNext]_vars

\* The pass of the call c on the candles and the clock of one of its inputs.
PassAt(c, in) ==
  AnalysePass(c.pair, in.candles[1], in.candles[2], in.candles[3], utcHourOf(in.time), tz)

RECURSIVE AloneRun(_, _, _, _)
\* What generateSignalAnalysis returns when the call c runs alone and its
\* k-th and later passes see the candles and the clock recorded in c.inputs.
AloneRun(c, k, best, highest) ==
  IF ~(k - 1 < c.maxRescans) THEN AfterLoop(c, best, highest)
  ELSE IF k > Len(c.inputs) THEN [pair |-> c.pair, reasoning |-> <<"UNFINISHED">>]
  ELSE LET o == PassOutcome([c EXCEPT !.rescanAttempt = k], PassAt(c, c.inputs[k]),
                            best, highest)
       IN IF o.to = "returned" THEN o.returned[1]
          ELSE AloneRun(c, k + 1, o.bestSignal, o.highestConfidence)

\* The entries the passes of the call c with confidence > 0 put in the log,
\* in the order of the passes.
ExpectedLog(c) ==
  LET ps == [k \in 1..Len(c.inputs) |->
               [signal |-> PassAt(c, c.inputs[k]).signal, time |-> c.inputs[k].time]]
      positive == SelectSeq(ps, LAMBDA x : x.signal.confidence > 0)
  IN [k \in 1..Len(positive) |->
        logTrade(<< >>,
                 TradeDataOf(positive[k].signal,
                             getCurrentSessionTime(utcHourOf(positive[k].time), tz)),
                 positive[k].time, 0)[1]]

\* The entries appended since the calls started that are still in the log.
Appended == LastN(tradeHistory, Min(logged, Len(tradeHistory)))

\* The appended entries of a pair, in the order of the log.
ActualLog(pair) ==
  LET sel == SelectSeq(Appended, LAMBDA e : e.pair = pair)
  IN [k \in 1..Len(sel) |-> [sel[k] EXCEPT !.seqNo = 0]]

\* C21: under every interleaving of concurrent calls for different pairs at
\* their await points, each call returns what it returns alone on the same
\* candles and clock, the log holds exactly one entry for each pass with
\* confidence > 0, in order, none lost and none twice, and the log never
\* holds more than 500 entries.
C21_ConcurrentCallsIndependent ==
  /\ Len(tradeHistory) <= TRADE_LOG_CAP
  /\ \E b \in ConcBacklog : Len(tradeHistory) = Min(TRADE_LOG_CAP, b + logged)
  /\ \A k \in {1, Len(tradeHistory) - Len(Appended)} :
       k >= 1 /\ k <= Len(tradeHistory) - Len(Appended) => tradeHistory[k].pair = BacklogPair
  /\ \A i \in 1..Len(running) :
       /\ ActualLog(running[i].pair) = ExpectedLog(running[i])
       /\ running[i].returned # << >> =>
            running[i].returned[1] = AloneRun(running[i], 1, << >>, 0)

\* Both calls have returned after two passes each, with the log at its
\* capacity and their entries interleaved in it.
C21_Witness ==
  /\ pc = "conc"
  /\ \A i \in 1..Len(running) :
       running[i].returned # << >> /\ Len(running[i].inputs) = 2
  /\ Len(tradeHistory) = TRADE_LOG_CAP
  /\ logged >= 3
  /\ tradeHistory[TRADE_LOG_CAP - 2].pair = ConcPairs[1]
  /\ tradeHistory[TRADE_LOG_CAP - 1].pair = ConcPairs[2]
  /\ tradeHistory[TRADE_LOG_CAP].pair = ConcPairs[1]

====
